---- MODULE Spec2Model ----
(***************************************************************************)
(* A model of backend/server/common/rest.py: the request handlers that    *)
(* manage a user's embedding artifacts (emb/, nnm/, params/), the user's  *)
(* obs-label file (obs.p), and the query-parameter filter parser.         *)
(*                                                                         *)
(* Embedding names, and the oldName/newName of a rename, are sequences of  *)
(* one-character strings, so that str.replace is computed, not assumed.    *)
(***************************************************************************)
EXTENDS Integers, Sequences, FiniteSets, TLC

VARIABLES
    cfg,      \* dataset configuration: the feature flags read by the handlers
    store,    \* store[userID][kind]: the files <userID>/<kind>/<name>.p, name -> content
    obsFile,  \* obsFile[userID]: the bytes of <userID>/obs.p, or NoFile
    req,      \* the request handled last: [op, user, args]
    pre,      \* history: the files as that request found them, the last table written
    resp,     \* the response (or uncaught exception) of that request
    procs,    \* the requests in flight, when handlers interleave step by step
    fargs,    \* the input of the function under check (_query_parameter_to_filter,
              \* the layers of schema_get_helper)
    fres,     \* what that function returned or raised
    calls,    \* the operations of its collaborators (configuration, codec, store,
              \* Analysis Engine) that the label, column, gene-set or diffexp
              \* request handled last performed, in order
    exports   \* per user, the bytes of the export file {userID}/{userID}_obs.csv

vars == <<cfg, store, obsFile, req, pre, resp, procs, fargs, fres, calls, exports>>

-----------------------------------------------------------------------------
(* Bounds and input domains                                                *)

\* the longest embNames list of a request
MaxReqNames == 2

Users == {"u1", "u2"}

\* the embedding names a request may list, and those present at the start
EmbNameSet == { <<"a">>, <<"a", "b">> }

\* the oldName / newName values of a rename request
SubSet == { <<>>, <<"a">>, <<"b">> }

SeqsUpTo(S, n) == UNION { [1..k -> S] : k \in 0..n }

-----------------------------------------------------------------------------
(* Python helpers                                                          *)

\* new + s[0] + new + s[1] + ... + new: str.replace with an empty pattern
RECURSIVE Interleave(_, _, _)
Interleave(s, new, i) ==
    IF i > Len(s) THEN new
    ELSE new \o <<s[i]>> \o Interleave(s, new, i + 1)

\* left-to-right replacement of the non-overlapping occurrences of old
RECURSIVE ReplaceFrom(_, _, _, _)
ReplaceFrom(s, old, new, i) ==
    IF i > Len(s) THEN <<>>
    ELSE IF i + Len(old) - 1 <= Len(s) /\ SubSeq(s, i, i + Len(old) - 1) = old
         THEN new \o ReplaceFrom(s, old, new, i + Len(old))
         ELSE <<s[i]>> \o ReplaceFrom(s, old, new, i + 1)

\* embName.replace(oldName, newName)
Replace(s, old, new) ==
    IF old = <<>> THEN Interleave(s, new, 1) ELSE ReplaceFrom(s, old, new, 1)

\* dict.get(key, None) is None
Has(args, key) == key \in DOMAIN args

-----------------------------------------------------------------------------
(* The file system under one user directory                                *)

\* the three artifact directories, in the order the handlers visit them
Kinds == <<"emb", "nnm", "params">>
KindSet == {"emb", "nnm", "params"}

\* what stands for the bytes of a file that does not exist
NoFile == << [op |-> "ENOENT"] >>

EmptyDir == [n \in {} |-> <<>>]
EmptyScope == [k \in KindSet |-> EmptyDir]

\* os.path.exists(f"{userID}/{kind}/{name}.p")
os_path_exists(sc, kind, name) == name \in DOMAIN sc[kind]

\* os.remove(f"{userID}/{kind}/{name}.p"), the file existing
os_remove(sc, kind, name) ==
    [sc EXCEPT ![kind] = [n \in (DOMAIN sc[kind]) \ {name} |-> sc[kind][n]]]

\* os.rename(src, dst) inside one directory, the source existing: the
\* destination is replaced; renaming a file onto itself changes nothing
os_rename(sc, kind, src, dst) ==
    IF src = dst THEN sc
    ELSE [sc EXCEPT ![kind] =
             [n \in ((DOMAIN sc[kind]) \ {src}) \cup {dst} |->
                 IF n = dst THEN sc[kind][src] ELSE sc[kind][n]]]

-----------------------------------------------------------------------------
(* The label file obs.p                                                    *)

\* a label column of a stored table
ColLouvain == [op |-> "col", name |-> "louvain", type |-> "categorical"]
ColCounts == [op |-> "col", name |-> "n_counts", type |-> "float32"]

\* the obs columns of the base dataset
BaseObs == << [op |-> "col", name |-> "name_0", type |-> "string"] >>

\* the obs-label tables a client may write: no column, one, two
LabelTables == { <<>>, <<ColLouvain>>, <<ColLouvain, ColCounts>> }

\* pickle.dump(table, f): the stream a complete dump leaves in the file; a
\* pickle starts with a PROTO opcode and ends with the STOP opcode
pickle_dump(table) == << [op |-> "PROTO"] >> \o table \o << [op |-> "STOP"] >>

\* the position of the first STOP opcode, 0 if there is none
RECURSIVE FirstStop(_, _)
FirstStop(bytes, i) ==
    IF i > Len(bytes) THEN 0
    ELSE IF bytes[i].op = "STOP" THEN i
    ELSE FirstStop(bytes, i + 1)

\* pickle.load(open(path, "rb")): the first pickle of the file, or the
\* exception raised: open() fails on a missing file, load() on a stream
\* that ends before its STOP opcode
pickle_load(bytes) ==
    IF bytes = NoFile
    THEN [exc |-> "FileNotFoundError", val |-> <<>>]
    ELSE IF bytes # <<>> /\ bytes[1].op = "PROTO" /\ FirstStop(bytes, 1) > 0
         THEN [exc |-> "", val |-> SubSeq(bytes, 2, FirstStop(bytes, 1) - 1)]
         ELSE [exc |-> "EOFError", val |-> <<>>]

-----------------------------------------------------------------------------
(* Responses                                                               *)

OK == 200
BAD_REQUEST == 400
NOT_ACCEPTABLE == 406
INTERNAL_SERVER_ERROR == 500
NOT_IMPLEMENTED == 501

\* make_response(body, status)
make_response(body, status) ==
    [status |-> status, exc |-> "", at |-> "", body |-> body]

\* abort(status)
abort(status) == [status |-> status, exc |-> "", at |-> "", body |-> <<>>]

\* an exception no handler catches, raised by the call `at`: the framework
\* answers 500
Uncaught(exc, at) ==
    [status |-> INTERNAL_SERVER_ERROR, exc |-> exc, at |-> at, body |-> <<>>]

NoResp == [status |-> 0, exc |-> "", at |-> "", body |-> <<>>]

-----------------------------------------------------------------------------
(* schema_get_helper                                                       *)

\* glob(f"{userID}/emb/*.p"), each path cut back to the embedding name: a
\* pattern that does not start with a dot matches no file name that does,
\* and the file of the empty embedding name is ".p"
GlobEmb(sc) == { n \in DOMAIN sc["emb"] : n # <<>> }

LayoutSchema(layout) ==
    [name |-> layout, type |-> "float32",
     dims |-> << layout \o <<"_", "0">>, layout \o <<"_", "1">> >>]

AnnSchema(col) ==
    [name |-> col.name, type |-> col.type, writable |-> (col.type = "categorical")]

\* the schema, or the exception raised on the way to it
schema_get_helper(sc, obs) ==
    LET curr_axis == pickle_load(obs) IN
    IF curr_axis.exc # ""
    THEN [exc |-> curr_axis.exc, schema |-> <<>>]
    ELSE [exc |-> "",
          schema |->
            [obs_columns |->
                 [i \in 1..Len(curr_axis.val) |-> AnnSchema(curr_axis.val[i])]
                 \o << AnnSchema(BaseObs[1]) >>,
             layout |-> { LayoutSchema(n) : n \in GlobEmb(sc) }]]

-----------------------------------------------------------------------------
(* delete_obsm_put                                                         *)

\* if os.path.exists(p): os.remove(p)
DeleteArtifact(sc, kind, name) ==
    IF os_path_exists(sc, kind, name) THEN os_remove(sc, kind, name) ELSE sc

\* a delete that leaves the parameter record behind
DeleteNameKeepsParams(sc, name) ==
    DeleteArtifact(DeleteArtifact(sc, "emb", name), "nnm", name)

\* the body of the loop over embNames
DeleteName(sc, name) ==
    DeleteArtifact(DeleteArtifact(DeleteArtifact(sc, "emb", name), "nnm", name),
                   "params", name)

\* a loop that handles the first name only
DeleteLoopFirstOnly(sc, names, i) ==
    IF i > Len(names) THEN sc ELSE DeleteName(sc, names[i])

RECURSIVE DeleteLoop(_, _, _)
DeleteLoop(sc, names, i) ==
    IF i > Len(names) THEN sc
    ELSE DeleteLoop(DeleteName(sc, names[i]), names, i + 1)

\* the scope after the handler's loop
DeleteResult(sc, args) ==
    IF Has(args, "embNames") THEN DeleteLoop(sc, args.embNames, 1) ELSE sc

-----------------------------------------------------------------------------
(* rename_obsm_put                                                         *)

\* a rename that skips a missing source, as delete does
RenameArtifactSkipsMissing(sc, kind, src, dst) ==
    IF os_path_exists(sc, kind, src)
    THEN [sc |-> os_rename(sc, kind, src, dst), exc |-> ""]
    ELSE [sc |-> sc, exc |-> ""]

\* os.rename(src, dst): it raises when the source does not exist
RenameArtifact(sc, kind, src, dst) ==
    IF os_path_exists(sc, kind, src)
    THEN [sc |-> os_rename(sc, kind, src, dst), exc |-> ""]
    ELSE [sc |-> sc, exc |-> "FileNotFoundError"]

\* a rename that forgets the neighbor graph
RenameNameForgetsNnm(sc, name, oldName, newName) ==
    LET dst == Replace(name, oldName, newName)
        r1  == RenameArtifact(sc, "emb", name, dst)
        r3  == RenameArtifact(r1.sc, "params", name, dst)
    IN  IF r1.exc # "" THEN r1 ELSE r3

\* the three renames of one embName; the first that raises ends the request
RenameName(sc, name, oldName, newName) ==
    LET dst == Replace(name, oldName, newName)
        r1  == RenameArtifact(sc, "emb", name, dst)
        r2  == RenameArtifact(r1.sc, "nnm", name, dst)
        r3  == RenameArtifact(r2.sc, "params", name, dst)
    IN  IF r1.exc # "" THEN r1
        ELSE IF r2.exc # "" THEN r2
        ELSE r3

\* the loop over embNames: the scope it leaves, the exception that ended
\* it, and the number of names renamed in full
RECURSIVE RenameLoop(_, _, _, _, _)
RenameLoop(sc, names, oldName, newName, i) ==
    IF i > Len(names) THEN [sc |-> sc, exc |-> "", done |-> i - 1]
    ELSE LET r == RenameName(sc, names[i], oldName, newName) IN
         IF r.exc # "" THEN [sc |-> r.sc, exc |-> r.exc, done |-> i - 1]
         ELSE RenameLoop(r.sc, names, oldName, newName, i + 1)

\* embNames is not None and oldName is not None and newName is not None
RenameGiven(args) ==
    Has(args, "embNames") /\ Has(args, "oldName") /\ Has(args, "newName")

\* a handler that puts the scope back as it found it when a rename raises
RenameResultRollsBack(sc, args) ==
    IF RenameGiven(args)
    THEN LET r == RenameLoop(sc, args.embNames, args.oldName, args.newName, 1)
         IN  IF r.exc # "" THEN [r EXCEPT !.sc = sc] ELSE r
    ELSE [sc |-> sc, exc |-> "", done |-> 0]

RenameResult(sc, args) ==
    IF RenameGiven(args)
    THEN RenameLoop(sc, args.embNames, args.oldName, args.newName, 1)
    ELSE [sc |-> sc, exc |-> "", done |-> 0]

-----------------------------------------------------------------------------
(* Requests                                                                *)

NoArgs == [k \in {} |-> <<>>]

Merge(f, g) ==
    [k \in (DOMAIN f) \cup (DOMAIN g) |-> IF k \in DOMAIN f THEN f[k] ELSE g[k]]

\* a JSON member that is absent, or present with a value of S
OptField(key, S) == { [k \in {key} |-> v] : v \in S } \cup { NoArgs }

NameLists == SeqsUpTo(EmbNameSet, MaxReqNames)

DeleteArgs == OptField("embNames", NameLists)

RenameArgs ==
    { Merge(Merge(e, o), n) : e \in OptField("embNames", NameLists),
                              o \in OptField("oldName", SubSet),
                              n \in OptField("newName", SubSet) }

NoReq == [op |-> "none", user |-> "u1", args |-> NoArgs]

\* the history kept with each request: the files as the request found them,
\* and (in a one-element sequence) the table of the last label write that
\* was answered 200
Snapshot == [store |-> store, obsFile |-> obsFile, lastPut |-> pre.lastPut]

\* the handler delete_obsm_put, run from request to response
delete_obsm_put(userID, args) ==
    /\ req' = [op |-> "delete_obsm_put", user |-> userID, args |-> args]
    /\ pre' = Snapshot
    /\ store' = [store EXCEPT ![userID] = DeleteResult(store[userID], args)]
    /\ resp' = make_response([fail |-> FALSE], OK)
    /\ UNCHANGED <<cfg, obsFile, procs, fargs, fres, calls, exports>>

\* the handler rename_obsm_put, run from request to response
rename_obsm_put(userID, args) ==
    LET r == RenameResult(store[userID], args)
        s == schema_get_helper(r.sc, obsFile[userID])
    IN  /\ req' = [op |-> "rename_obsm_put", user |-> userID, args |-> args]
        /\ pre' = Snapshot
        /\ store' = [store EXCEPT ![userID] = r.sc]
        /\ resp' = IF r.exc # "" THEN Uncaught(r.exc, "os.rename")
                   ELSE IF s.exc # "" THEN Uncaught(s.exc, "pickle.load")
                   ELSE make_response([schema |-> s.schema], OK)
        /\ UNCHANGED <<cfg, obsFile, procs, fargs, fres, calls, exports>>

-----------------------------------------------------------------------------
(* Spec: one user's embedding requests, handled one at a time              *)

\* the content of the artifact of kind k computed for embedding n
Artifact(k, n) == [kind |-> k, of |-> n]

\* a scope holding the three artifacts of every embedding of S
ScopeOf(S) == [k \in KindSet |-> [n \in S |-> Artifact(k, n)]]

\* the column ceiling of the server configuration
ColumnRequestMax == 2

\* the configuration and the annotations object of the dataset: whether
\* label writing is enabled, the collection selected, the column ceiling,
\* whether gene-set saving and differential expression are enabled
DefaultCfg ==
    [user_annotations |-> TRUE, collection |-> "", column_request_max |-> ColumnRequestMax,
     gene_sets_save |-> TRUE, diffexp__enable |-> TRUE]

Init ==
    /\ cfg = DefaultCfg
    /\ \E S \in SUBSET EmbNameSet :
          store = [u \in Users |-> IF u = "u1" THEN ScopeOf(S) ELSE EmptyScope]
    /\ \E f \in {NoFile, pickle_dump(<<ColLouvain>>)} :
          obsFile = [u \in Users |-> IF u = "u1" THEN f ELSE NoFile]
    /\ req = NoReq
    /\ pre = [store |-> store, obsFile |-> obsFile, lastPut |-> <<>>]
    /\ resp = NoResp
    /\ procs = <<>>
    /\ fargs = <<>>
    /\ fres = <<>>
    /\ calls = <<>>
    /\ exports = [u \in Users |-> NoFile]

Next ==
    \/ \E args \in DeleteArgs : delete_obsm_put("u1", args)
    \/ \E args \in RenameArgs : rename_obsm_put("u1", args)

Spec == Init /\ [][Next]_vars

-----------------------------------------------------------------------------
(* Properties of Spec                                                      *)

Exists3(sc, n) == \A k \in KindSet : n \in DOMAIN sc[k]
None3(sc, n) == \A k \in KindSet : n \notin DOMAIN sc[k]
AllNames(sc) == UNION { DOMAIN sc[k] : k \in KindSet }

\* every embedding name of the scope has its three artifacts or none
AllOrNone(sc) == \A n \in AllNames(sc) : Exists3(sc, n)

IsRename == req.op = "rename_obsm_put"
IsDelete == req.op = "delete_obsm_put"
Before == pre.store[req.user]
After == store[req.user]
Target(n) == Replace(n, req.args.oldName, req.args.newName)

Relocated(n) ==
    /\ \A k \in KindSet :
          /\ Target(n) \in DOMAIN After[k]
          /\ After[k][Target(n)] = Before[k][n]
    /\ Target(n) # n => None3(After, n)

NoCollision(names) ==
    \A i, j \in 1..Len(names) :
        i # j => /\ names[i] # names[j]
                 /\ Target(names[i]) # names[j]
                 /\ Target(names[i]) # Target(names[j])

Lacks(i) == ~Exists3(Before, req.args.embNames[i])

\* C3 as claimed: a rename request listing a name that lacks an artifact
\* never ends in the 200 response.
C3_RenameMissingFails ==
    (/\ IsRename /\ RenameGiven(req.args)
     /\ \E i \in 1..Len(req.args.embNames) : Lacks(i)) => resp.status # OK

\* C3, amended: a rename request listing a name that lacks an artifact, and
\* that no name listed before it is renamed to, ends in an uncaught
\* exception (500), never in the 200 response; a delete request listing
\* such a name answers 200.
C3_RenameMissingFailsLoudly ==
    /\ (/\ IsRename /\ RenameGiven(req.args)
        /\ \E i \in 1..Len(req.args.embNames) :
              /\ Lacks(i)
              /\ \A j \in 1..(i - 1) :
                    Target(req.args.embNames[j]) # req.args.embNames[i])
       => (resp.status = INTERNAL_SERVER_ERROR /\ resp.at = "os.rename")
    /\ (IsDelete /\ Has(req.args, "embNames")) => resp.status = OK

\* a rename whose second name is missing, the first having been renamed
C3_Witness ==
    /\ IsRename /\ RenameGiven(req.args)
    /\ Len(req.args.embNames) = 2
    /\ ~Lacks(1) /\ Lacks(2)
    /\ Target(req.args.embNames[1]) # req.args.embNames[2]
    /\ resp.status = INTERNAL_SERVER_ERROR /\ resp.at = "os.rename"

Listed(n) ==
    Has(req.args, "embNames") /\ \E i \in 1..Len(req.args.embNames) : req.args.embNames[i] = n

-----------------------------------------------------------------------------
(* SpecRace: two embedding requests of one user, interleaved file          *)
(* operation by file operation (the handlers take no lock)                 *)

RaceUser == "u1"

\* the requests in flight name one embedding each
RaceDeleteArgs == { [embNames |-> <<n>>] : n \in EmbNameSet }

RaceRenameArgs ==
    { [embNames |-> <<n>>, oldName |-> o, newName |-> w] :
        n \in EmbNameSet, o \in SubSet, w \in SubSet }

\* a request at the head of its handler's loop
StartDelete(args) ==
    [op |-> "delete_obsm_put", args |-> args, i |-> 1, k |-> 1,
     pc |-> IF Has(args, "embNames") /\ Len(args.embNames) > 0
            THEN "exists" ELSE "respond",
     resp |-> NoResp]

StartRename(args) ==
    [op |-> "rename_obsm_put", args |-> args, i |-> 1, k |-> 1,
     pc |-> IF RenameGiven(args) /\ Len(args.embNames) > 0
            THEN "rename" ELSE "respond",
     resp |-> NoResp]

\* the next file of the loop over embNames and the three directories, or
\* the end of the loop
Advance(p, loop) ==
    IF p.k < Len(Kinds) THEN [p EXCEPT !.k = p.k + 1, !.pc = loop]
    ELSE IF p.i < Len(p.args.embNames)
         THEN [p EXCEPT !.i = p.i + 1, !.k = 1, !.pc = loop]
         ELSE [p EXCEPT !.pc = "respond"]

Raise(p, exc, at) == [p EXCEPT !.pc = "done", !.resp = Uncaught(exc, at)]

RaceScope == store[RaceUser]

\* delete_obsm_put: if os.path.exists(...)
DeleteExists(id) ==
    LET p == procs[id] IN
    /\ p.op = "delete_obsm_put" /\ p.pc = "exists"
    /\ procs' = [procs EXCEPT ![id] =
                    IF os_path_exists(RaceScope, Kinds[p.k], p.args.embNames[p.i])
                    THEN [p EXCEPT !.pc = "remove"]
                    ELSE Advance(p, "exists")]
    /\ UNCHANGED <<cfg, store, obsFile, req, pre, resp, fargs, fres, calls, exports>>

\* delete_obsm_put: os.remove(...), which raises if the file has gone since
DeleteRemove(id) ==
    LET p == procs[id]
        kind == Kinds[p.k]
        name == p.args.embNames[p.i]
    IN
    /\ p.op = "delete_obsm_put" /\ p.pc = "remove"
    /\ IF os_path_exists(RaceScope, kind, name)
       THEN /\ store' = [store EXCEPT ![RaceUser] = os_remove(RaceScope, kind, name)]
            /\ procs' = [procs EXCEPT ![id] = Advance(p, "exists")]
       ELSE /\ store' = store
            /\ procs' = [procs EXCEPT ![id] = Raise(p, "FileNotFoundError", "os.remove")]
    /\ UNCHANGED <<cfg, obsFile, req, pre, resp, fargs, fres, calls, exports>>

\* delete_obsm_put: the response
DeleteRespond(id) ==
    LET p == procs[id] IN
    /\ p.op = "delete_obsm_put" /\ p.pc = "respond"
    /\ procs' = [procs EXCEPT ![id] =
                    [p EXCEPT !.pc = "done",
                              !.resp = make_response([fail |-> FALSE], OK)]]
    /\ UNCHANGED <<cfg, store, obsFile, req, pre, resp, fargs, fres, calls, exports>>

\* rename_obsm_put: one os.rename
RenameStep(id) ==
    LET p == procs[id]
        name == p.args.embNames[p.i]
        r == RenameArtifact(RaceScope, Kinds[p.k], name,
                            Replace(name, p.args.oldName, p.args.newName))
    IN
    /\ p.op = "rename_obsm_put" /\ p.pc = "rename"
    /\ store' = [store EXCEPT ![RaceUser] = r.sc]
    /\ procs' = [procs EXCEPT ![id] =
                    IF r.exc # "" THEN Raise(p, r.exc, "os.rename")
                    ELSE Advance(p, "rename")]
    /\ UNCHANGED <<cfg, obsFile, req, pre, resp, fargs, fres, calls, exports>>

\* rename_obsm_put: the response, built from schema_get_helper
RenameRespond(id) ==
    LET p == procs[id]
        s == schema_get_helper(RaceScope, obsFile[RaceUser])
    IN
    /\ p.op = "rename_obsm_put" /\ p.pc = "respond"
    /\ procs' = [procs EXCEPT ![id] =
                    IF s.exc # "" THEN Raise(p, s.exc, "pickle.load")
                    ELSE [p EXCEPT !.pc = "done",
                                   !.resp = make_response([schema |-> s.schema], OK)]]
    /\ UNCHANGED <<cfg, store, obsFile, req, pre, resp, fargs, fres, calls, exports>>

RaceStart ==
    { StartDelete(a) : a \in RaceDeleteArgs } \cup { StartRename(a) : a \in RaceRenameArgs }

InitRace ==
    /\ cfg = DefaultCfg
    /\ \E S \in SUBSET EmbNameSet :
          store = [u \in Users |-> IF u = RaceUser THEN ScopeOf(S) ELSE EmptyScope]
    /\ obsFile = [u \in Users |->
                    IF u = RaceUser THEN pickle_dump(<<ColLouvain>>) ELSE NoFile]
    /\ req = NoReq
    /\ pre = [store |-> store, obsFile |-> obsFile, lastPut |-> <<>>]
    /\ resp = NoResp
    /\ procs \in [1..2 -> RaceStart]
    /\ fargs = <<>>
    /\ fres = <<>>
    /\ calls = <<>>
    /\ exports = [u \in Users |-> NoFile]

NextRace ==
    \/ \E id \in DOMAIN procs : DeleteExists(id)
    \/ \E id \in DOMAIN procs : DeleteRemove(id)
    \/ \E id \in DOMAIN procs : DeleteRespond(id)
    \/ \E id \in DOMAIN procs : RenameStep(id)
    \/ \E id \in DOMAIN procs : RenameRespond(id)

SpecRace == InitRace /\ [][NextRace]_vars

AllDone == \A id \in DOMAIN procs : procs[id].pc = "done"

\* C5: when a user's delete_obsm_put and rename_obsm_put requests on the
\* same embedding names interleave, each exists check, remove and rename
\* being one step, then once all requests have finished every embedding
\* name has its coordinates, neighbor graph and parameters, or none of them.
C5_CascadeInterleaved == AllDone => AllOrNone(store[RaceUser])

-----------------------------------------------------------------------------
(* The label handlers: annotations_obs_put, annotations_obs_get, schema_get *)

\* a column a client may send although the dataset has one of that name
ColDuplicate == [op |-> "col", name |-> "name_0", type |-> "categorical"]

\* zlib.compress, on the client
deflate(bytes) == << [op |-> "zlib"] >> \o bytes

\* inflate(data): zlib.decompress raises zlib.error on anything else
inflate(data) ==
    IF data # <<>> /\ data[1].op = "zlib"
    THEN [exc |-> "", val |-> Tail(data)]
    ELSE [exc |-> "zlib.error", val |-> <<>>]

\* the matrix frame of a table, as the client encodes it
encode_matrix_fbs(table) == << [op |-> "fbs"] >> \o table

\* decode_matrix_fbs(fbs): the table of a well-formed frame
decode_matrix_fbs(fbs) ==
    IF fbs # <<>> /\ fbs[1].op = "fbs"
    THEN [exc |-> "", val |-> Tail(fbs)]
    ELSE [exc |-> "ValueError", val |-> <<>>]

\* data_adaptor.check_new_labels(df): the table, or KeyError for a column
\* the dataset already has
check_new_labels(df) ==
    IF \E i \in 1..Len(df), j \in 1..Len(BaseObs) : df[i].name = BaseObs[j].name
    THEN [exc |-> "KeyError", val |-> <<>>]
    ELSE [exc |-> "", val |-> df]

\* a helper that opens obs.p for appending ("ab") instead of writing ("wb")
annotations_put_fbs_helper_appends(enabled, old, fbs) ==
    LET new_label_df == decode_matrix_fbs(fbs) IN
    [exc |-> new_label_df.exc,
     file |-> (IF old = NoFile THEN <<>> ELSE old) \o pickle_dump(new_label_df.val)]

\* annotations_put_fbs_helper: the bytes obs.p (bytes old before) holds
\* afterwards, or the exception raised before the file is opened
annotations_put_fbs_helper(enabled, old, fbs) ==
    LET new_label_df == decode_matrix_fbs(fbs)
        checked == IF new_label_df.val # <<>>
                   THEN check_new_labels(new_label_df.val)
                   ELSE new_label_df
    IN  IF ~enabled THEN [exc |-> "DisabledFeatureError", file |-> old]
        ELSE IF new_label_df.exc # "" THEN [exc |-> new_label_df.exc, file |-> old]
        ELSE IF checked.exc # "" THEN [exc |-> checked.exc, file |-> old]
        ELSE [exc |-> "", file |-> pickle_dump(checked.val)]

\* annotations.is_safe_collection_name(name)
is_safe_collection_name(name) == name \in {"labels1"}

CollectionKey == "annotation-collection-name"

\* the operations annotations_obs_put performs, in order, up to its return
annotations_obs_put_calls(args, data) ==
    LET fbs == inflate(data)
        df == decode_matrix_fbs(fbs.val)
        named == Has(args, CollectionKey)
        unsafe == named /\ ~is_safe_collection_name(args[CollectionKey])
    IN  IF ~cfg.user_annotations THEN <<>>
        ELSE << "inflate" >> \o
             (IF fbs.exc # "" THEN <<>>
              ELSE (IF named THEN << "is_safe_collection_name" >> ELSE <<>>) \o
                   (IF unsafe THEN <<>>
                    ELSE (IF named THEN << "set_collection" >> ELSE <<>>) \o
                         << "decode_matrix_fbs" >> \o
                         (IF df.exc # "" THEN <<>>
                          ELSE (IF df.val # <<>> THEN << "check_new_labels" >> ELSE <<>>) \o
                               (IF df.val = <<>> \/ check_new_labels(df.val).exc = ""
                                THEN << "pickle.dump" >> ELSE <<>>))))

\* the handler annotations_obs_put, run from request to response
annotations_obs_put(userID, args, data) ==
    LET fbs == inflate(data)
        h == annotations_put_fbs_helper(cfg.user_annotations, obsFile[userID], fbs.val)
        unsafe == Has(args, CollectionKey) /\ ~is_safe_collection_name(args[CollectionKey])
        stored == cfg.user_annotations /\ fbs.exc = "" /\ ~unsafe /\ h.exc = ""
    IN  /\ req' = [op |-> "annotations_obs_put", user |-> userID, args |-> args,
                   data |-> data]
        /\ resp' = IF ~cfg.user_annotations THEN abort(NOT_IMPLEMENTED)
                   ELSE IF fbs.exc # "" THEN Uncaught(fbs.exc, "zlib.decompress")
                   ELSE IF unsafe THEN abort(BAD_REQUEST)
                   ELSE IF h.exc # "" THEN abort(BAD_REQUEST)
                   ELSE make_response([status |-> "OK"], OK)
        /\ cfg' = IF cfg.user_annotations /\ fbs.exc = "" /\ ~unsafe
                     /\ Has(args, CollectionKey)
                  THEN [cfg EXCEPT !.collection = args[CollectionKey]]
                  ELSE cfg
        /\ obsFile' = IF stored THEN [obsFile EXCEPT ![userID] = h.file] ELSE obsFile
        /\ pre' = [Snapshot EXCEPT !.lastPut =
                      IF stored THEN << decode_matrix_fbs(fbs.val).val >> ELSE @]
        /\ calls' = annotations_obs_put_calls(args, data)
        /\ UNCHANGED <<store, procs, fargs, fres, exports>>

\* data_adaptor.get_obs_keys()
get_obs_keys == [i \in 1..Len(BaseObs) |-> BaseObs[i].name]

\* server_config.exceeds_limit("column_request_max", value)
exceeds_limit(value) == value > cfg.column_request_max

\* the columns of cols named by fields, in that order
RECURSIVE SelectColumns(_, _, _)
SelectColumns(cols, fields, i) ==
    IF i > Len(fields) THEN <<>>
    ELSE << cols[CHOOSE j \in 1..Len(cols) : cols[j].name = fields[i]] >>
         \o SelectColumns(cols, fields, i + 1)

\* data_adaptor.annotation_to_fbs_matrix(Axis.OBS, fields, labels): the
\* frame of the requested columns (all, when none is named) of the dataset
\* and the labels, KeyError for a field that is neither
annotation_to_fbs_matrix(fields, labels) ==
    LET cols == BaseObs \o labels IN
    IF \E i \in 1..Len(fields) : \A j \in 1..Len(cols) : cols[j].name # fields[i]
    THEN [exc |-> "KeyError", val |-> <<>>]
    ELSE [exc |-> "",
          val |-> encode_matrix_fbs(IF fields = <<>> THEN cols
                                    ELSE SelectColumns(cols, fields, 1))]

\* request.accept_mimetypes.best_match(["application/octet-stream"])
best_match(accept) ==
    IF accept \in {"application/octet-stream", "*/*"}
    THEN "application/octet-stream" ELSE "None"

\* a column request that negotiates the content type before it counts the
\* columns
ColumnChecksAcceptFirst(num_columns_requested, accept) ==
    IF best_match(accept) # "application/octet-stream"
    THEN [resp |-> abort(NOT_ACCEPTABLE), calls |-> << "best_match" >>]
    ELSE IF exceeds_limit(num_columns_requested)
    THEN [resp |-> abort(BAD_REQUEST), calls |-> << "best_match", "exceeds_limit" >>]
    ELSE [resp |-> NoResp, calls |-> << "best_match", "exceeds_limit" >>]

\* the first statements of annotations_obs_get, annotations_var_get and
\* layout_obs_get: the column ceiling, then the accept check; resp is NoResp
\* when the handler goes on
ColumnChecks(num_columns_requested, accept) ==
    IF exceeds_limit(num_columns_requested)
    THEN [resp |-> abort(BAD_REQUEST), calls |-> << "exceeds_limit" >>]
    ELSE IF best_match(accept) # "application/octet-stream"
    THEN [resp |-> abort(NOT_ACCEPTABLE), calls |-> << "exceeds_limit", "best_match" >>]
    ELSE [resp |-> NoResp, calls |-> << "exceeds_limit", "best_match" >>]

\* the handler annotations_obs_get, run from request to response
annotations_obs_get(userID, fields, accept) ==
    LET num_columns_requested ==
            IF Len(fields) = 0 THEN Len(get_obs_keys) ELSE Len(fields)
        checks == ColumnChecks(num_columns_requested, accept)
        loaded == IF cfg.user_annotations THEN pickle_load(obsFile[userID])
                  ELSE [exc |-> "", val |-> <<>>]
        fbs == annotation_to_fbs_matrix(fields, loaded.val)
    IN  /\ req' = [op |-> "annotations_obs_get", user |-> userID,
                   args |-> [fields |-> fields, accept |-> accept]]
        /\ resp' = IF checks.resp # NoResp THEN checks.resp
                   ELSE IF loaded.exc # "" THEN Uncaught(loaded.exc, "pickle.load")
                   ELSE IF fbs.exc # "" THEN abort(BAD_REQUEST)
                   ELSE make_response(fbs.val, OK)
        /\ calls' = checks.calls \o
                    (IF checks.resp # NoResp THEN <<>>
                     ELSE (IF cfg.user_annotations THEN << "pickle.load" >> ELSE <<>>) \o
                          (IF loaded.exc # "" THEN <<>>
                           ELSE << "annotation_to_fbs_matrix" >>))
        /\ pre' = Snapshot
        /\ UNCHANGED <<cfg, store, obsFile, procs, fargs, fres, exports>>

\* the handler schema_get, run from request to response
schema_get(userID) ==
    LET s == schema_get_helper(store[userID], obsFile[userID]) IN
    /\ req' = [op |-> "schema_get", user |-> userID, args |-> NoArgs]
    /\ resp' = IF s.exc # "" THEN Uncaught(s.exc, "pickle.load")
               ELSE make_response([schema |-> s.schema], OK)
    /\ calls' = << "pickle.load" >> \o (IF s.exc # "" THEN <<>> ELSE << "glob" >>)
    /\ pre' = Snapshot
    /\ UNCHANGED <<cfg, store, obsFile, procs, fargs, fres, exports>>

-----------------------------------------------------------------------------
(* SpecLabels: one user's label requests, handled one at a time, from a    *)
(* scope in which no labels were ever written                              *)

\* the tables a client may send
PutTables == LabelTables \cup { <<ColDuplicate>> }

\* the request bodies: compressed frames, a frame sent uncompressed, and
\* compressed bytes that are no frame
PutBodies ==
    { deflate(encode_matrix_fbs(t)) : t \in PutTables }
    \cup { encode_matrix_fbs(<<ColLouvain>>), deflate(<< [op |-> "junk"] >>) }

PutArgs == OptField(CollectionKey, {"labels1", "../x"})

FieldNames == {"louvain", "nope"}
GetFields == SeqsUpTo(FieldNames, ColumnRequestMax + 1)
Accepts == {"application/octet-stream", "*/*", "text/html"}

InitLabels ==
    /\ \E enabled \in BOOLEAN : cfg = [DefaultCfg EXCEPT !.user_annotations = enabled]
    /\ store = [u \in Users |-> IF u = "u1" THEN ScopeOf({<<"a">>}) ELSE EmptyScope]
    /\ obsFile = [u \in Users |-> NoFile]
    /\ req = NoReq
    /\ pre = [store |-> store, obsFile |-> obsFile, lastPut |-> <<>>]
    /\ resp = NoResp
    /\ procs = <<>>
    /\ fargs = <<>>
    /\ fres = <<>>
    /\ calls = <<>>
    /\ exports = [u \in Users |-> NoFile]

NextLabels ==
    \/ \E args \in PutArgs, data \in PutBodies : annotations_obs_put("u1", args, data)
    \/ \E fields \in GetFields, accept \in Accepts :
          annotations_obs_get("u1", fields, accept)
    \/ schema_get("u1")

SpecLabels == InitLabels /\ [][NextLabels]_vars

\* the label columns a response body or a schema shows
BodyTable(body) == SubSeq(body, 2 + Len(BaseObs), Len(body))
SchemaTable(schema) ==
    [i \in 1..(Len(schema.obs_columns) - Len(BaseObs)) |-> schema.obs_columns[i]]

\* C6: once a label write has been answered 200 (the store was absent at
\* first), every read that succeeds shows the table of the most recent such
\* write: an annotations_obs_get of all columns returns exactly the dataset
\* columns and that table, one of named columns returns columns of it, and
\* the schema lists exactly its columns.
C6_ReadSeesLastWrite ==
    (resp.status = OK /\ cfg.user_annotations /\ pre.lastPut # <<>>) =>
        LET T == pre.lastPut[1] IN
        /\ (req.op = "annotations_obs_get" /\ req.args.fields = <<>>) =>
              resp.body = encode_matrix_fbs(BaseObs \o T)
        /\ req.op = "annotations_obs_get" =>
              \A i \in 2..Len(resp.body) :
                  \E j \in 1..Len(BaseObs \o T) : resp.body[i] = (BaseObs \o T)[j]
        /\ req.op = "schema_get" =>
              SchemaTable(resp.body.schema) = [i \in 1..Len(T) |-> AnnSchema(T[i])]

\* a read of all columns that returns a written two-column table
C6_Witness ==
    /\ req.op = "annotations_obs_get" /\ resp.status = OK
    /\ cfg.user_annotations
    /\ req.args.fields = <<>>
    /\ pre.lastPut = << <<ColLouvain, ColCounts>> >>
    /\ BodyTable(resp.body) = <<ColLouvain, ColCounts>>

\* C8: when no obs-label table is stored in the user's scope, a schema
\* request and an obs-annotation read do not fail for the missing table.
C8_AbsentLabelsServed ==
    (/\ req.op \in {"schema_get", "annotations_obs_get"}
     /\ pre.obsFile[req.user] = NoFile) => resp.exc # "FileNotFoundError"

-----------------------------------------------------------------------------
(* SpecLabelRace: a label write and label reads of one user, interleaved   *)
(* file operation by file operation                                        *)

\* the writer is annotations_obs_put past its checks, about to run
\* pickle.dump(new_label_df, open(f"{userID}/obs.p", "wb")); n counts the
\* frames of the dump that have reached the file
StartWrite(table) ==
    [op |-> "annotations_obs_put", table |-> table, n |-> 0, pc |-> "open",
     resp |-> NoResp]

\* a reader is annotations_obs_get or schema_get about to run
\* pickle.load(open(f"{userID}/obs.p", "rb"))
StartRead(op) ==
    [op |-> op, pc |-> "load", read |-> [exc |-> "", val |-> <<>>], resp |-> NoResp]

\* open(path, "wb"): the file is created or truncated
WriteOpen(id) ==
    LET p == procs[id] IN
    /\ p.op = "annotations_obs_put" /\ p.pc = "open"
    /\ obsFile' = [obsFile EXCEPT ![RaceUser] = <<>>]
    /\ procs' = [procs EXCEPT ![id] = [p EXCEPT !.pc = "dump"]]
    /\ UNCHANGED <<cfg, store, req, pre, resp, fargs, fres, calls, exports>>

\* pickle.dump: the next m frames of the stream reach the file, wherever
\* the buffer happens to be flushed
WriteFlush(id, m) ==
    LET p == procs[id]
        stream == pickle_dump(p.table)
    IN
    /\ p.op = "annotations_obs_put" /\ p.pc = "dump"
    /\ p.n + m <= Len(stream)
    /\ obsFile' = [obsFile EXCEPT ![RaceUser] = @ \o SubSeq(stream, p.n + 1, p.n + m)]
    /\ procs' = [procs EXCEPT ![id] =
                    IF p.n + m = Len(stream)
                    THEN [p EXCEPT !.n = p.n + m, !.pc = "done",
                                   !.resp = make_response([status |-> "OK"], OK)]
                    ELSE [p EXCEPT !.n = p.n + m]]
    /\ UNCHANGED <<cfg, store, req, pre, resp, fargs, fres, calls, exports>>

\* pickle.load(open(path, "rb")) and the response built from it
ReadLoad(id) ==
    LET p == procs[id]
        loaded == pickle_load(obsFile[RaceUser])
        s == schema_get_helper(store[RaceUser], obsFile[RaceUser])
        fbs == annotation_to_fbs_matrix(<<>>, loaded.val)
    IN
    /\ p.op \in {"annotations_obs_get", "schema_get"} /\ p.pc = "load"
    /\ procs' = [procs EXCEPT ![id] =
                    [p EXCEPT !.pc = "done", !.read = loaded,
                              !.resp = IF loaded.exc # ""
                                       THEN Uncaught(loaded.exc, "pickle.load")
                                       ELSE IF p.op = "schema_get"
                                       THEN make_response([schema |-> s.schema], OK)
                                       ELSE make_response(fbs.val, OK)]]
    /\ UNCHANGED <<cfg, store, obsFile, req, pre, resp, fargs, fres, calls, exports>>

\* the longest stream of a dump: the columns of the widest table, between
\* the PROTO and STOP opcodes
MaxFrames == Len(pickle_dump(<<ColLouvain, ColCounts>>))

InitLabelRace ==
    /\ cfg = DefaultCfg
    /\ store = [u \in Users |-> EmptyScope]
    /\ \E t \in LabelTables :
          obsFile = [u \in Users |-> IF u = RaceUser THEN pickle_dump(t) ELSE NoFile]
    /\ req = NoReq
    /\ pre = [store |-> store, obsFile |-> obsFile, lastPut |-> <<>>]
    /\ resp = NoResp
    /\ \E t \in LabelTables, r1, r2 \in {"annotations_obs_get", "schema_get"} :
          procs = << StartWrite(t), StartRead(r1), StartRead(r2) >>
    /\ fargs = <<>>
    /\ fres = <<>>
    /\ calls = <<>>
    /\ exports = [u \in Users |-> NoFile]

NextLabelRace ==
    \/ \E id \in DOMAIN procs : WriteOpen(id)
    \/ \E id \in DOMAIN procs, m \in 1..MaxFrames : WriteFlush(id, m)
    \/ \E id \in DOMAIN procs : ReadLoad(id)

SpecLabelRace == InitLabelRace /\ [][NextLabelRace]_vars

\* C7: a label read that runs while a label write of the same user is under
\* way obtains the complete table stored before the write or the complete
\* new table, never an empty, truncated or mixed file.
C7_NoPartialLabelRead ==
    \A id \in DOMAIN procs :
        (procs[id].op # "annotations_obs_put" /\ procs[id].pc = "done") =>
            /\ procs[id].read.exc = ""
            /\ procs[id].read.val \in
                  { pickle_load(pre.obsFile[RaceUser]).val, procs[1].table }

-----------------------------------------------------------------------------
(* _query_parameter_to_filter                                              *)
(*                                                                         *)
(* A string is a sequence of tokens: a word ("obs", "h"), a digit, one of  *)
(* the characters ":" "," "*", or a percent escape ("%2C" is an escaped    *)
(* comma, "%2A" an escaped asterisk).                                      *)

\* str.split(sep): the segments between the separators, at least one
RECURSIVE SplitFrom(_, _, _, _)
SplitFrom(str, sep, i, cur) ==
    IF i > Len(str) THEN << cur >>
    ELSE IF str[i] = sep THEN << cur >> \o SplitFrom(str, sep, i + 1, <<>>)
    ELSE SplitFrom(str, sep, i + 1, Append(cur, str[i]))

Split(str, sep) == SplitFrom(str, sep, 1, <<>>)

\* url_unquote: the percent escapes decoded
url_unquote(str) ==
    [i \in 1..Len(str) |->
        IF str[i] = "%2C" THEN "," ELSE IF str[i] = "%2A" THEN "*" ELSE str[i]]

Digits == [d \in {"0", "1", "2"} |-> IF d = "0" THEN 0 ELSE IF d = "1" THEN 1 ELSE 2]

RECURSIVE DecimalValue(_, _)
DecimalValue(str, n) ==
    IF n = 0 THEN 0 ELSE 10 * DecimalValue(str, n - 1) + Digits[str[n]]

\* float(str): the number, or ValueError
float(str) ==
    IF str # <<>> /\ \A i \in 1..Len(str) : str[i] \in DOMAIN Digits
    THEN [exc |-> "", val |-> DecimalValue(str, Len(str))]
    ELSE [exc |-> "ValueError", val |-> 0]

\* d[k] = v
DictPut(d, k, v) == [x \in (DOMAIN d) \cup {k} |-> IF x = k THEN v ELSE d[x]]

\* a lookup that never finds the field
IndexOfNeverFinds(axis_filter, name, i) == 0

\* the index of the predicate of field name in an axis's dict, 0 if none
RECURSIVE IndexOf(_, _, _)
IndexOf(axis_filter, name, i) ==
    IF i > Len(axis_filter) THEN 0
    ELSE IF axis_filter[i].name = name THEN i
    ELSE IndexOf(axis_filter, name, i + 1)

\* a check that only refuses a second range
RangeAllowedIgnoresValues(current) ==
    "min" \notin DOMAIN current /\ "max" \notin DOMAIN current

\* a check that refuses nothing
RangeAllowedAlways(current) == TRUE

\* not (len(current) > 1)
RangeAllowed(current) == Cardinality(DOMAIN current) <= 1

\* bounds stored under each other's key
SetBoundsSwapped(current, min, max) ==
    LET c1 == IF min # <<"*">> THEN DictPut(current, "max", float(min).val) ELSE current
    IN  IF max # <<"*">> THEN DictPut(c1, "min", float(max).val) ELSE c1

\* if min != "*": current["min"] = float(min); likewise max
SetBounds(current, min, max) ==
    LET c1 == IF min # <<"*">> THEN DictPut(current, "min", float(min).val) ELSE current
    IN  IF max # <<"*">> THEN DictPut(c1, "max", float(max).val) ELSE c1

FilterError == "FilterError"

\* the body of the loop over args.items(multi=True): the filters after the
\* parameter, or the exception it raises (ValueError from the unpacking of
\* key.split(":") and from float, FilterError from the raise statements)
FilterParam(filters, key, value) ==
    LET parts == Split(key, ":")
        axis == parts[1]
        name == url_unquote(parts[2])
        ax == axis[1]
        found == IndexOf(filters[ax], name, 1)
        idx == IF found = 0 THEN Len(filters[ax]) + 1 ELSE found
        current == IF found = 0 THEN [name |-> name] ELSE filters[ax][found]
        with(c) == [filters EXCEPT ![ax] =
                       [i \in 1..(IF found = 0 THEN Len(@) + 1 ELSE Len(@)) |->
                           IF i = idx THEN c ELSE @[i]]]
        val_split == Split(value, ",")
        min == url_unquote(val_split[1])
        max == url_unquote(val_split[2])
        ranged == SetBounds(current, min, max)
        raise == [filters |-> filters, exc |-> FilterError]
        valueError == [filters |-> filters, exc |-> "ValueError"]
    IN  IF Len(parts) # 2 THEN valueError
        ELSE IF axis \notin {<<"obs">>, <<"var">>} THEN raise
        ELSE IF Len(val_split) = 1
             THEN IF "min" \in DOMAIN current \/ "max" \in DOMAIN current THEN raise
                  ELSE [filters |->
                           with(DictPut(current, "values",
                                        (IF "values" \in DOMAIN current
                                         THEN current.values ELSE <<>>)
                                        \o << url_unquote(value) >>)),
                        exc |-> ""]
        ELSE IF Len(val_split) = 2
             THEN IF ~RangeAllowed(current) THEN raise
                  ELSE IF min # <<"*">> /\ float(min).exc # "" THEN valueError
                  ELSE IF max # <<"*">> /\ float(max).exc # "" THEN valueError
                  ELSE IF Cardinality(DOMAIN ranged) < 2 THEN raise
                  ELSE [filters |-> with(ranged), exc |-> ""]
        ELSE raise

RECURSIVE FilterLoop(_, _, _)
FilterLoop(filters, args, i) ==
    IF i > Len(args) THEN [filters |-> filters, exc |-> ""]
    ELSE LET r == FilterParam(filters, args[i].key, args[i].value) IN
         IF r.exc # "" THEN r ELSE FilterLoop(r.filters, args, i + 1)

\* a result with both axes as keys
FilterResultKeepsEmpty(filters) ==
    [axis \in {"obs", "var"} |-> [annotation_value |-> filters[axis]]]

\* the result dict: an axis is a key of it only if it has a predicate
FilterResult(filters) ==
    [axis \in { a \in {"obs", "var"} : Len(filters[a]) > 0 } |->
        [annotation_value |-> filters[axis]]]

\* a version without the except clause: a ValueError leaves as it is
query_parameter_to_filter_reraises(args) ==
    LET r == FilterLoop([obs |-> <<>>, var |-> <<>>], args, 1) IN
    IF r.exc # "" THEN [done |-> TRUE, exc |-> r.exc, val |-> <<>>]
    ELSE [done |-> TRUE, exc |-> "", val |-> FilterResult(r.filters)]

\* _query_parameter_to_filter(args): the FilterSpec returned, or the
\* exception raised; except ValueError: raise FilterError
query_parameter_to_filter(args) ==
    LET r == FilterLoop([obs |-> <<>>, var |-> <<>>], args, 1) IN
    IF r.exc = "ValueError" THEN [done |-> TRUE, exc |-> FilterError, val |-> <<>>]
    ELSE IF r.exc # "" THEN [done |-> TRUE, exc |-> r.exc, val |-> <<>>]
    ELSE [done |-> TRUE, exc |-> "", val |-> FilterResult(r.filters)]

-----------------------------------------------------------------------------
(* SpecFilter: _query_parameter_to_filter on a bounded set of inputs       *)

\* the most parameters of a query
MaxParams == 3

Param(key, value) == [key |-> key, value |-> value]

KeyObsF == <<"obs", ":", "f">>
KeyObsG == <<"obs", ":", "g">>
KeyVarF == <<"var", ":", "f">>

\* the parameters of a query: values and ranges on three fields, and the
\* malformed ones
FilterParams ==
    { Param(k, v) : k \in {KeyObsF, KeyObsG, KeyVarF},
                    v \in { <<"h">>, <<"1", ",", "*">>, <<"*", ",", "2">>,
                            <<"1", ",", "2">>, <<"*", ",", "*">> } }
    \cup { Param(KeyObsF, <<"k">>),
           Param(KeyObsF, <<"h", "%2C", "k">>),
           Param(KeyObsG, <<"%2A", ",", "1", "0">>),
           Param(KeyObsF, <<"1", ",", "2", ",", "2">>),
           Param(KeyObsF, <<"h", ",", "1">>),
           Param(<<"bad", ":", "f">>, <<"h">>),
           Param(<<"obs">>, <<"h">>),
           Param(<<"obs", ":", "f", ":", "g">>, <<"h">>) }

Pending == [done |-> FALSE, exc |-> "", val |-> <<>>]

InitFilter ==
    /\ cfg = DefaultCfg
    /\ store = [u \in Users |-> EmptyScope]
    /\ obsFile = [u \in Users |-> NoFile]
    /\ req = NoReq
    /\ pre = [store |-> store, obsFile |-> obsFile, lastPut |-> <<>>]
    /\ resp = NoResp
    /\ procs = <<>>
    /\ fargs \in SeqsUpTo(FilterParams, MaxParams)
    /\ fres = Pending
    /\ calls = <<>>
    /\ exports = [u \in Users |-> NoFile]

\* a handler calls _query_parameter_to_filter on the query
ParseFilter ==
    /\ ~fres.done
    /\ fres' = query_parameter_to_filter(fargs)
    /\ UNCHANGED <<cfg, store, obsFile, req, pre, resp, procs, fargs, calls, exports>>

NextFilter == ParseFilter

SpecFilter == InitFilter /\ [][NextFilter]_vars

\* what a parameter says, read off its text
KeyParts(p) == Split(p.key, ":")
KeyOK(p) == Len(KeyParts(p)) = 2 /\ KeyParts(p)[1] \in {<<"obs">>, <<"var">>}
FieldOf(p) == << KeyParts(p)[1], url_unquote(KeyParts(p)[2]) >>
Segments(p) == Split(p.value, ",")
IsValue(p) == Len(Segments(p)) = 1
Wild(seg) == url_unquote(seg) = <<"*">>
Numeric(seg) == float(url_unquote(seg)).exc = ""
IsValidRange(p) ==
    /\ Len(Segments(p)) = 2
    /\ \A i \in 1..2 : Wild(Segments(p)[i]) \/ Numeric(Segments(p)[i])
    /\ \E i \in 1..2 : ~Wild(Segments(p)[i])

\* C9: _query_parameter_to_filter raises FilterError whenever the parameters
\* hold, for one (axis, field), a single-segment value and a valid
\* two-segment range, in either order, whatever else comes before, between
\* or after them.
C9_MixedValueRangeFails ==
    (/\ fres.done
     /\ \E i, j \in 1..Len(fargs) :
           /\ KeyOK(fargs[i]) /\ KeyOK(fargs[j])
           /\ FieldOf(fargs[i]) = FieldOf(fargs[j])
           /\ IsValue(fargs[i]) /\ IsValidRange(fargs[j]))
    => fres.exc = FilterError

\* a value, then another field's parameter, then a range on the first field
C9_Witness ==
    /\ fres.done /\ fres.exc = FilterError
    /\ Len(fargs) = 3
    /\ fargs[1] = Param(KeyObsF, <<"h">>)
    /\ fargs[2] = Param(KeyVarF, <<"h">>)
    /\ fargs[3] = Param(KeyObsF, <<"1", ",", "*">>)

\* the predicate of parameter p's field in the result
PredicateOf(p) ==
    LET preds == fres.val[KeyParts(p)[1][1]].annotation_value
    IN  preds[IndexOf(preds, FieldOf(p)[2], 1)]

\* C10: a two-segment value with both endpoints '*' raises FilterError; one
\* with exactly one numeric endpoint is accepted and its predicate carries
\* that bound only (min for the first segment, max for the second), the
\* other key being absent; with two numeric endpoints it carries both.
C10_RangeWildcards ==
    fres.done =>
        \A i \in 1..Len(fargs) :
            LET p == fargs[i]
                seg == Segments(p)
            IN  (KeyOK(p) /\ Len(seg) = 2) =>
                  /\ (Wild(seg[1]) /\ Wild(seg[2])) => fres.exc = FilterError
                  /\ (Len(fargs) = 1 /\ IsValidRange(p)) => fres.exc = ""
                  /\ fres.exc = "" =>
                        /\ DOMAIN PredicateOf(p) =
                              {"name"} \cup (IF Wild(seg[1]) THEN {} ELSE {"min"})
                                       \cup (IF Wild(seg[2]) THEN {} ELSE {"max"})
                        /\ ~Wild(seg[1]) =>
                              PredicateOf(p).min = float(url_unquote(seg[1])).val
                        /\ ~Wild(seg[2]) =>
                              PredicateOf(p).max = float(url_unquote(seg[2])).val

\* the query obs:f=h & obs:g=%2A,10: the range has a max of 10 and no min
C10_Witness ==
    /\ fres.done /\ fres.exc = ""
    /\ fargs = << Param(KeyObsF, <<"h">>), Param(KeyObsG, <<"%2A", ",", "1", "0">>) >>
    /\ fres.val.obs.annotation_value =
          << [name |-> <<"f">>, values |-> << <<"h">> >>],
             [name |-> <<"g">>, max |-> 10] >>

\* the predicates of the result, over both axes
Predicates ==
    UNION { { fres.val[ax].annotation_value[i] :
                i \in 1..Len(fres.val[ax].annotation_value) } : ax \in DOMAIN fres.val }

IsValueSet(q) ==
    /\ "values" \in DOMAIN q /\ q.values # <<>>
    /\ "min" \notin DOMAIN q /\ "max" \notin DOMAIN q

IsRange(q) ==
    /\ "values" \notin DOMAIN q
    /\ "min" \in DOMAIN q \/ "max" \in DOMAIN q

\* C11: every predicate of a returned FilterSpec has a name and is exactly
\* one of a value-set (non-empty values, no min/max) or a range (min or max,
\* no values); two two-segment parameters on one field are rejected.
C11_FilterSpecInvariant ==
    fres.done =>
        /\ fres.exc = "" =>
              \A q \in Predicates :
                  /\ "name" \in DOMAIN q
                  /\ DOMAIN q \subseteq {"name", "values", "min", "max"}
                  /\ IsValueSet(q) \/ IsRange(q)
        /\ (\E i, j \in 1..Len(fargs) :
               /\ i < j
               /\ KeyOK(fargs[i]) /\ KeyOK(fargs[j])
               /\ FieldOf(fargs[i]) = FieldOf(fargs[j])
               /\ Len(Segments(fargs[i])) = 2 /\ Len(Segments(fargs[j])) = 2)
           => fres.exc = FilterError

\* a returned FilterSpec with a value-set and a range on the obs axis
C11_Witness ==
    /\ fres.done /\ fres.exc = ""
    /\ Len(fargs) = 3
    /\ \E q \in Predicates : IsValueSet(q) /\ Len(q.values) = 2
    /\ \E q \in Predicates : IsRange(q) /\ DOMAIN q = {"name", "min", "max"}

\* the decoded values of the parameters of field f in args, in order
RECURSIVE ValuesOf(_, _, _)
ValuesOf(args, f, i) ==
    IF i > Len(args) THEN <<>>
    ELSE (IF FieldOf(args[i]) = f THEN << url_unquote(args[i].value) >> ELSE <<>>)
         \o ValuesOf(args, f, i + 1)

Range(seq) == { seq[i] : i \in 1..Len(seq) }

AxisName(f) == f[1][1]

\* the value-set of field f in a result
ValueSetOf(val, f) ==
    UNION { Range(q.values) :
              q \in { x \in Range(val[AxisName(f)].annotation_value) : x.name = f[2] } }

Permuted(args, perm) == [i \in 1..Len(args) |-> args[perm[i]]]

\* C12: for parameters that are all single-segment values, the values list of
\* each field is the decoded values of its parameters in arrival order,
\* duplicates kept, one predicate per field; the value set of each field is
\* the same under every permutation of the parameters.
C12_ValuesAccumulateInOrder ==
    (fres.done /\ \A i \in 1..Len(fargs) : KeyOK(fargs[i]) /\ IsValue(fargs[i])) =>
        /\ fres.exc = ""
        /\ \A i \in 1..Len(fargs) :
              LET f == FieldOf(fargs[i])
                  preds == fres.val[AxisName(f)].annotation_value
              IN  /\ Cardinality({ k \in 1..Len(preds) : preds[k].name = f[2] }) = 1
                  /\ (CHOOSE q \in Range(preds) : q.name = f[2]).values =
                        ValuesOf(fargs, f, 1)
        /\ \A ax \in DOMAIN fres.val :
              Len(fres.val[ax].annotation_value) =
              Cardinality({ FieldOf(fargs[i]) : i \in { k \in 1..Len(fargs) :
                                                          AxisName(FieldOf(fargs[k])) = ax } })
        /\ \A perm \in Permutations(1..Len(fargs)) :
              LET other == query_parameter_to_filter(Permuted(fargs, perm)) IN
              /\ other.exc = ""
              /\ \A i \in 1..Len(fargs) :
                    ValueSetOf(other.val, FieldOf(fargs[i])) =
                    ValueSetOf(fres.val, FieldOf(fargs[i]))

\* obs:f=k & obs:g=h & obs:f=h%2Ck: field f holds k then "h,k"
C12_Witness ==
    /\ fres.done /\ fres.exc = ""
    /\ fargs = << Param(KeyObsF, <<"k">>), Param(KeyObsG, <<"h">>),
                  Param(KeyObsF, <<"h", "%2C", "k">>) >>
    /\ fres.val.obs.annotation_value =
          << [name |-> <<"f">>, values |-> << <<"k">>, <<"h", ",", "k">> >>],
             [name |-> <<"g">>, values |-> << <<"h">> >>] >>

\* C13: a returned FilterSpec has the key obs (var) iff a parameter of that
\* axis was supplied; an axis present has a non-empty annotation_value; no
\* parameters give the empty FilterSpec.
C13_AxisOmission ==
    fres.done =>
        /\ fres.exc = "" =>
              \A ax \in {"obs", "var"} :
                  /\ ax \in DOMAIN fres.val <=>
                        \E i \in 1..Len(fargs) : KeyParts(fargs[i])[1] = << ax >>
                  /\ ax \in DOMAIN fres.val => fres.val[ax].annotation_value # <<>>
        /\ fres.exc = "" => DOMAIN fres.val \subseteq {"obs", "var"}
        /\ fargs = <<>> => (fres.exc = "" /\ DOMAIN fres.val = {})

\* parameters on the var axis only: the result has no obs key
C13_Witness ==
    /\ fres.done /\ fres.exc = ""
    /\ Len(fargs) = 2
    /\ DOMAIN fres.val = {"var"}
    /\ Len(fres.val.var.annotation_value) = 1

\* a parameter that is malformed whatever precedes it
Malformed(p) ==
    \/ Len(KeyParts(p)) # 2
    \/ KeyParts(p)[1] \notin {<<"obs">>, <<"var">>}
    \/ Len(Segments(p)) >= 3
    \/ /\ Len(Segments(p)) = 2
       /\ \E i \in 1..2 : ~Wild(Segments(p)[i]) /\ ~Numeric(Segments(p)[i])

-----------------------------------------------------------------------------
(* SpecSchema: the layers list of schema_get_helper                        *)

\* layers = [".raw"] + list(layers.keys()) if the dataset has raw data, else
\* list(layers.keys()); then "X" is put in front if it is not a member
schema_layers(raw, keys) ==
    LET layers == IF raw THEN << ".raw" >> \o keys ELSE keys IN
    IF \A i \in 1..Len(layers) : layers[i] # "X" THEN << "X" >> \o layers ELSE layers

\* the most layers a dataset declares
MaxLayers == 3

LayerNames == {"X", "counts", "norm", "spliced"}

\* the keys of data_adaptor.data.layers: distinct names, in insertion order
LayerKeys ==
    { keys \in SeqsUpTo(LayerNames, MaxLayers) :
        \A i, j \in 1..Len(keys) : keys[i] = keys[j] => i = j }

InitSchema ==
    /\ cfg = DefaultCfg
    /\ store = [u \in Users |-> EmptyScope]
    /\ obsFile = [u \in Users |-> NoFile]
    /\ req = NoReq
    /\ pre = [store |-> store, obsFile |-> obsFile, lastPut |-> <<>>]
    /\ resp = NoResp
    /\ procs = <<>>
    /\ fargs \in [raw : BOOLEAN, layers : LayerKeys]
    /\ fres = Pending
    /\ calls = <<>>
    /\ exports = [u \in Users |-> NoFile]

\* schema_get_helper builds the layers list of the dataset
BuildLayers ==
    /\ ~fres.done
    /\ fres' = [done |-> TRUE, exc |-> "", val |-> schema_layers(fargs.raw, fargs.layers)]
    /\ UNCHANGED <<cfg, store, obsFile, req, pre, resp, procs, fargs, calls, exports>>

NextSchema == BuildLayers

SpecSchema == InitSchema /\ [][NextSchema]_vars

\* C15: for every dataset (raw data or not, layers with or without X) the
\* layers list of the schema has X as a member exactly once, and .raw is its
\* first element when the dataset has raw data.
C15_SchemaLayers ==
    fres.done =>
        /\ Cardinality({ i \in 1..Len(fres.val) : fres.val[i] = "X" }) = 1
        /\ fargs.raw => fres.val[1] = ".raw"

-----------------------------------------------------------------------------
(* Properties of Spec: the schema and the store                            *)

\* the layout entries of the embeddings that have a coordinate artifact
StoredLayout(sc) == { LayoutSchema(n) : n \in DOMAIN sc["emb"] }

\* C16: in every reachable state of delete and rename requests, a freshly
\* built schema lists exactly the embeddings that have a coordinate artifact
\* in the user's scope, each with dims [<name>_0, <name>_1], and the schema
\* that rename_obsm_put returns is the one of the state after its renames.
C16_SchemaTracksStore ==
    /\ \A u \in Users :
          LET s == schema_get_helper(store[u], obsFile[u]) IN
          s.exc = "" => s.schema.layout = StoredLayout(store[u])
    /\ (IsRename /\ resp.status = OK) => resp.body.schema.layout = StoredLayout(After)

-----------------------------------------------------------------------------
(* diffexp_obs_post, genesets_put, annotations_var_get, layout_obs_get     *)

NOT_FOUND == 404

\* JSON values: null, a number, a string, an object (its members a function)
JNull == [t |-> "null", n |-> 0, s |-> "", v |-> NoArgs]
JNum(n) == [t |-> "num", n |-> n, s |-> "", v |-> NoArgs]
JStr(str) == [t |-> "str", n |-> 0, s |-> str, v |-> NoArgs]
JObj(members) == [t |-> "obj", n |-> 0, s |-> "", v |-> members]

\* abort_and_log(code, message)
abort_and_log(status, message) ==
    [status |-> status, exc |-> "", at |-> "", body |-> << message >>]

\* value[key]: TypeError unless value is an object, KeyError without the key
Subscript(value, key) ==
    IF value.t # "obj" THEN [exc |-> "TypeError", val |-> JNull]
    ELSE IF key \notin DOMAIN value.v THEN [exc |-> "KeyError", val |-> JNull]
    ELSE [exc |-> "", val |-> value.v[key]]

\* args.get(key, default) on an object
DictGet(args, key, default) == IF key \in DOMAIN args.v THEN args.v[key] ELSE default

\* DiffExpMode(value): the member of the enumeration with that value, or
\* ValueError
DiffExpMode(value) ==
    IF value.t = "str" /\ value.s \in {"topN", "varFilter"}
    THEN [exc |-> "", val |-> value.s]
    ELSE [exc |-> "ValueError", val |-> ""]

\* Axis.VAR in filter: TypeError unless filter is an object
HasVarAxis(filter) ==
    IF filter.t # "obj" THEN [exc |-> "TypeError", val |-> FALSE]
    ELSE [exc |-> "", val |-> "var" \in DOMAIN filter.v]

\* what data_adaptor.diffexp_topN does with a request
EngineOutcomes == {"ok", "FilterError", "JSONEncodingValueError"}

\* the handler diffexp_obs_post: its response and the operations it performs
diffexp_obs_post_result(enabled, body, engine) ==
    LET args == body
        modeArg == Subscript(args, "mode")
        mode == DiffExpMode(modeArg.val)
        set1 == Subscript(DictGet(args, "set1", JObj([filter |-> JObj(NoArgs)])), "filter")
        set2 == Subscript(DictGet(args, "set2", JObj([filter |-> JObj(NoArgs)])), "filter")
        count == DictGet(args, "count", JNull)
        var1 == HasVarAxis(set1.val)
        var2 == HasVarAxis(set2.val)
        parsed == << "get_json" >>
    IN  IF ~enabled THEN [resp |-> abort(NOT_IMPLEMENTED), calls |-> <<>>]
        ELSE IF modeArg.exc # ""
             THEN [resp |-> abort_and_log(BAD_REQUEST, modeArg.exc), calls |-> parsed]
        ELSE IF mode.exc # ""
             THEN [resp |-> Uncaught(mode.exc, "DiffExpMode"), calls |-> parsed]
        ELSE IF mode.val = "varFilter" \/ "varFilter" \in DOMAIN args.v
             THEN [resp |-> abort_and_log(NOT_IMPLEMENTED, "varFilter not enabled"),
                   calls |-> parsed]
        ELSE IF set1.exc # ""
             THEN [resp |-> abort_and_log(BAD_REQUEST, set1.exc), calls |-> parsed]
        ELSE IF set2.exc # ""
             THEN [resp |-> abort_and_log(BAD_REQUEST, set2.exc), calls |-> parsed]
        ELSE IF set1.val = JNull \/ set2.val = JNull \/ count = JNull
             THEN [resp |-> abort_and_log(BAD_REQUEST, "missing required parameter"),
                   calls |-> parsed]
        ELSE IF var1.exc # ""
             THEN [resp |-> abort_and_log(BAD_REQUEST, var1.exc), calls |-> parsed]
        ELSE IF var1.val
             THEN [resp |-> abort_and_log(BAD_REQUEST, "var axis filter not enabled"),
                   calls |-> parsed]
        ELSE IF var2.exc # ""
             THEN [resp |-> abort_and_log(BAD_REQUEST, var2.exc), calls |-> parsed]
        ELSE IF var2.val
             THEN [resp |-> abort_and_log(BAD_REQUEST, "var axis filter not enabled"),
                   calls |-> parsed]
        ELSE [resp |-> IF engine = "ok" THEN make_response([diffexp |-> "topN"], OK)
                       ELSE IF engine = "JSONEncodingValueError"
                            THEN Uncaught(engine, "diffexp_topN")
                       ELSE abort_and_log(BAD_REQUEST, engine),
              calls |-> parsed \o << "diffexp_topN" >>]

\* the handler diffexp_obs_post, run from request to response
diffexp_obs_post(body, engine) ==
    LET r == diffexp_obs_post_result(cfg.diffexp__enable, body, engine) IN
    /\ req' = [op |-> "diffexp_obs_post", user |-> "u1", args |-> body]
    /\ resp' = r.resp
    /\ calls' = r.calls
    /\ pre' = Snapshot
    /\ UNCHANGED <<cfg, store, obsFile, procs, fargs, fres, exports>>

\* what annotations.write_gene_sets does with a request
WriteOutcomes == {"ok", "ValueError", "ObsoleteRequest"}

\* a handler that selects the collection before it looks at the feature flag
genesets_put_result_selects_first(enabled, qargs, body, outcome) ==
    LET named == Has(qargs, CollectionKey)
        unsafe == named /\ ~is_safe_collection_name(qargs[CollectionKey])
        selected == IF named THEN << "is_safe_collection_name" >> ELSE <<>>
    IN  IF unsafe
        THEN [resp |-> abort(BAD_REQUEST), calls |-> selected, collection |-> cfg.collection]
        ELSE [resp |-> IF enabled THEN make_response([status |-> "OK"], OK)
                       ELSE abort(NOT_IMPLEMENTED),
              calls |-> selected \o (IF named THEN << "set_collection" >> ELSE <<>>),
              collection |-> IF named THEN qargs[CollectionKey] ELSE cfg.collection]

\* the handler genesets_put: its response, the operations it performs and the
\* collection selected when it returns
genesets_put_result(enabled, qargs, body, outcome) ==
    LET named == Has(qargs, CollectionKey)
        unsafe == named /\ ~is_safe_collection_name(qargs[CollectionKey])
        selected == (IF named THEN << "is_safe_collection_name", "set_collection" >>
                     ELSE <<>>) \o << "get_json" >>
        collection == IF named THEN qargs[CollectionKey] ELSE cfg.collection
    IN  IF ~enabled
        THEN [resp |-> abort(NOT_IMPLEMENTED), calls |-> <<>>, collection |-> cfg.collection]
        ELSE IF unsafe
        THEN [resp |-> abort(BAD_REQUEST), calls |-> << "is_safe_collection_name" >>,
              collection |-> cfg.collection]
        ELSE IF body.t # "obj"
        THEN [resp |-> Uncaught("AttributeError", "args.get"), calls |-> selected,
              collection |-> collection]
        ELSE IF DictGet(body, "genesets", JNull) = JNull
        THEN [resp |-> abort(BAD_REQUEST), calls |-> selected, collection |-> collection]
        ELSE [resp |-> IF outcome = "ok" THEN make_response([status |-> "OK"], OK)
                       ELSE IF outcome = "ObsoleteRequest" THEN abort(NOT_FOUND)
                       ELSE abort_and_log(BAD_REQUEST, outcome),
              calls |-> selected \o << "write_gene_sets" >>,
              collection |-> collection]

\* the handler genesets_put, run from request to response
genesets_put(qargs, body, outcome) ==
    LET r == genesets_put_result(cfg.gene_sets_save, qargs, body, outcome) IN
    /\ req' = [op |-> "genesets_put", user |-> "u1", args |-> [query |-> qargs, json |-> body]]
    /\ resp' = r.resp
    /\ calls' = r.calls
    /\ cfg' = [cfg EXCEPT !.collection = r.collection]
    /\ pre' = Snapshot
    /\ UNCHANGED <<store, obsFile, procs, fargs, fres, exports>>

\* the handler reembed_parameters_put: its response, the operations it
\* performs and the collection selected when it returns
reembed_parameters_put_result(qargs, body, outcome) ==
    LET named == Has(qargs, CollectionKey)
        unsafe == named /\ ~is_safe_collection_name(qargs[CollectionKey])
        selected == (IF named THEN << "is_safe_collection_name", "set_collection" >>
                     ELSE <<>>) \o << "get_json" >>
        collection == IF named THEN qargs[CollectionKey] ELSE cfg.collection
    IN  IF unsafe
        THEN [resp |-> abort(BAD_REQUEST), calls |-> << "is_safe_collection_name" >>,
              collection |-> cfg.collection]
        ELSE IF body.t # "obj"
        THEN [resp |-> Uncaught("AttributeError", "args.get"), calls |-> selected,
              collection |-> collection]
        ELSE IF DictGet(body, "reembedParams", JNull) = JNull
        THEN [resp |-> abort(BAD_REQUEST), calls |-> selected, collection |-> collection]
        ELSE [resp |-> IF outcome = "ok" THEN make_response([status |-> "OK"], OK)
                       ELSE IF outcome = "ObsoleteRequest" THEN abort(NOT_FOUND)
                       ELSE abort_and_log(BAD_REQUEST, outcome),
              calls |-> selected \o << "write_reembed_parameters" >>,
              collection |-> collection]

\* the handler reembed_parameters_put, run from request to response
reembed_parameters_put(qargs, body, outcome) ==
    LET r == reembed_parameters_put_result(qargs, body, outcome) IN
    /\ req' = [op |-> "reembed_parameters_put", user |-> "u1",
               args |-> [query |-> qargs, json |-> body]]
    /\ resp' = r.resp
    /\ calls' = r.calls
    /\ cfg' = [cfg EXCEPT !.collection = r.collection]
    /\ pre' = Snapshot
    /\ UNCHANGED <<store, obsFile, procs, fargs, fres, exports>>

\* the var columns of the dataset
BaseVar ==
    << [op |-> "col", name |-> "name_0", type |-> "string"],
       [op |-> "col", name |-> "n_cells", type |-> "int32"],
       [op |-> "col", name |-> "highly_variable", type |-> "boolean"] >>

\* data_adaptor.get_var_keys()
get_var_keys == [i \in 1..Len(BaseVar) |-> BaseVar[i].name]

\* data_adaptor.annotation_to_fbs_matrix(Axis.VAR, fields, None)
annotation_to_fbs_matrix_var(fields) ==
    IF \E i \in 1..Len(fields) : \A j \in 1..Len(BaseVar) : BaseVar[j].name # fields[i]
    THEN [exc |-> "KeyError", val |-> <<>>]
    ELSE [exc |-> "",
          val |-> encode_matrix_fbs(IF fields = <<>> THEN BaseVar
                                    ELSE SelectColumns(BaseVar, fields, 1))]

\* the handler annotations_var_get, run from request to response
annotations_var_get(fields, accept) ==
    LET num_columns_requested ==
            IF Len(fields) = 0 THEN Len(get_var_keys) ELSE Len(fields)
        checks == ColumnChecks(num_columns_requested, accept)
        fbs == annotation_to_fbs_matrix_var(fields)
    IN  /\ req' = [op |-> "annotations_var_get", user |-> "u1",
                   args |-> [fields |-> fields, accept |-> accept]]
        /\ resp' = IF checks.resp # NoResp THEN checks.resp
                   ELSE IF fbs.exc # "" THEN abort_and_log(BAD_REQUEST, fbs.exc)
                   ELSE make_response(fbs.val, OK)
        /\ calls' = checks.calls \o
                    (IF checks.resp # NoResp THEN <<>> ELSE << "annotation_to_fbs_matrix" >>)
        /\ pre' = Snapshot
        /\ UNCHANGED <<cfg, store, obsFile, procs, fargs, fres, exports>>

\* data_adaptor.get_embedding_names(): the embeddings of the dataset
get_embedding_names == << "umap" >>

\* what data_adaptor.layout_to_fbs_matrix does with a request
LayoutOutcomes == {"ok", "KeyError", "PrepareError"}

\* the handler layout_obs_get, run from request to response
layout_obs_get(fields, accept, outcome) ==
    LET num_columns_requested ==
            IF Len(fields) = 0 THEN Len(get_embedding_names) ELSE Len(fields)
        checks == ColumnChecks(num_columns_requested, accept)
    IN  /\ req' = [op |-> "layout_obs_get", user |-> "u1",
                   args |-> [fields |-> fields, accept |-> accept]]
        /\ resp' = IF checks.resp # NoResp THEN checks.resp
                   ELSE IF outcome = "ok"
                        THEN make_response(encode_matrix_fbs(<<>>), OK)
                   ELSE IF outcome = "PrepareError"
                        THEN abort_and_log(NOT_IMPLEMENTED, "No embedding available")
                   ELSE abort_and_log(BAD_REQUEST, outcome)
        /\ calls' = checks.calls \o
                    (IF checks.resp # NoResp THEN <<>> ELSE << "layout_to_fbs_matrix" >>)
        /\ pre' = Snapshot
        /\ UNCHANGED <<cfg, store, obsFile, procs, fargs, fres, exports>>

-----------------------------------------------------------------------------
(* SpecDispatch: the requests that the feature flags and the column        *)
(* ceiling guard, handled one at a time                                    *)

\* the set1 and set2 members of a diffexp request
SetValues ==
    { JNull, JNum(1), JObj(NoArgs), JObj([filter |-> JNull]),
      JObj([filter |-> JObj(NoArgs)]),
      JObj([filter |-> JObj([obs |-> JNull])]),
      JObj([filter |-> JObj([var |-> JNull])]) }

\* the JSON bodies of diffexp requests: no body, or an object
DiffexpBodies ==
    { JNull } \cup
    { JObj(Merge(Merge(Merge(m, s1), Merge(s2, c)), vf)) :
        m \in OptField("mode", {JStr("topN"), JStr("varFilter"), JStr("bad")}),
        s1 \in OptField("set1", SetValues),
        s2 \in OptField("set2", SetValues),
        c \in OptField("count", {JNum(10)}),
        vf \in OptField("varFilter", {JNull}) }

\* the diffexp requests of SpecDispatch: no body, a complete request, one
\* with a var filter
DispatchDiffexpBodies ==
    { JNull,
      JObj([mode |-> JStr("topN"), set1 |-> JObj([filter |-> JObj(NoArgs)]),
            set2 |-> JObj([filter |-> JObj(NoArgs)]), count |-> JNum(10)]),
      JObj([mode |-> JStr("topN"), set1 |-> JObj([filter |-> JObj([var |-> JNull])]),
            set2 |-> JObj([filter |-> JObj(NoArgs)]), count |-> JNum(10)]) }

\* the label payloads of SpecDispatch: one table, and bytes that do not inflate
DispatchPutBodies == { deflate(encode_matrix_fbs(<<ColLouvain>>)), << [op |-> "junk"] >> }

GenesetBodies ==
    { JNull, JObj(NoArgs), JObj([genesets |-> JObj(NoArgs)]),
      JObj([genesets |-> JObj(NoArgs), tid |-> JNum(1)]) }

ReembedBodies ==
    { JNull, JObj(NoArgs), JObj([reembedParams |-> JObj(NoArgs)]) }

VarFieldNames == {"n_cells", "nope"}

InitDispatch ==
    /\ \E la, gs, de \in BOOLEAN :
          cfg = [DefaultCfg EXCEPT !.user_annotations = la, !.gene_sets_save = gs,
                                   !.diffexp__enable = de]
    /\ store = [u \in Users |-> IF u = "u1" THEN ScopeOf({<<"a">>}) ELSE EmptyScope]
    /\ obsFile = [u \in Users |-> NoFile]
    /\ req = NoReq
    /\ pre = [store |-> store, obsFile |-> obsFile, lastPut |-> <<>>]
    /\ resp = NoResp
    /\ procs = <<>>
    /\ fargs = <<>>
    /\ fres = <<>>
    /\ calls = <<>>
    /\ exports = [u \in Users |-> NoFile]

NextDispatch ==
    \/ \E args \in PutArgs, data \in DispatchPutBodies :
          annotations_obs_put("u1", args, data)
    \/ \E qargs \in PutArgs, body \in GenesetBodies, outcome \in WriteOutcomes :
          genesets_put(qargs, body, outcome)
    \/ \E qargs \in PutArgs, body \in ReembedBodies, outcome \in WriteOutcomes :
          reembed_parameters_put(qargs, body, outcome)
    \/ \E body \in DispatchDiffexpBodies, engine \in EngineOutcomes :
          diffexp_obs_post(body, engine)
    \/ \E fields \in GetFields, accept \in Accepts :
          annotations_obs_get("u1", fields, accept)
    \/ \E fields \in SeqsUpTo(VarFieldNames, ColumnRequestMax + 1), accept \in Accepts :
          annotations_var_get(fields, accept)
    \/ \E fields \in SeqsUpTo({"umap"}, ColumnRequestMax + 1), accept \in Accepts,
          outcome \in LayoutOutcomes :
          layout_obs_get(fields, accept, outcome)

SpecDispatch == InitDispatch /\ [][NextDispatch]_vars

-----------------------------------------------------------------------------
(* SpecDiffexp: diffexp_obs_post on every request body of DiffexpBodies    *)

InitDiffexp ==
    /\ \E de \in BOOLEAN : cfg = [DefaultCfg EXCEPT !.diffexp__enable = de]
    /\ store = [u \in Users |-> EmptyScope]
    /\ obsFile = [u \in Users |-> NoFile]
    /\ req = NoReq
    /\ pre = [store |-> store, obsFile |-> obsFile, lastPut |-> <<>>]
    /\ resp = NoResp
    /\ procs = <<>>
    /\ fargs = <<>>
    /\ fres = <<>>
    /\ calls = <<>>
    /\ exports = [u \in Users |-> NoFile]

NextDiffexp ==
    \E body \in DiffexpBodies, engine \in EngineOutcomes : diffexp_obs_post(body, engine)

SpecDiffexp == InitDiffexp /\ [][NextDiffexp]_vars

-----------------------------------------------------------------------------
(* Properties of SpecDispatch and SpecDiffexp                              *)

\* the step handles a request for a feature that is disabled
DisabledRequest ==
    \/ req'.op = "annotations_obs_put" /\ ~cfg.user_annotations
    \/ req'.op = "genesets_put" /\ ~cfg.gene_sets_save
    \/ req'.op = "diffexp_obs_post" /\ ~cfg.diffexp__enable

\* C17: annotations_obs_put with label writing disabled, genesets_put with
\* gene-set saving disabled and diffexp_obs_post with differential expression
\* disabled answer NOT_IMPLEMENTED (not BAD_REQUEST) before any other
\* operation: no payload is decoded, no collection selected, nothing written,
\* the Analysis Engine not invoked, and the configuration and the store are
\* as before.
C17_DisabledIsDistinct ==
    [][DisabledRequest =>
          /\ resp'.status = NOT_IMPLEMENTED /\ resp'.status # BAD_REQUEST
          /\ calls' = <<>>
          /\ cfg' = cfg /\ store' = store /\ obsFile' = obsFile]_vars

\* genesets_put with gene-set saving disabled and an unsafe collection name:
\* answered 501, not 400
C17_Witness ==
    /\ req.op = "genesets_put" /\ ~cfg.gene_sets_save
    /\ Has(req.args.query, CollectionKey)
    /\ ~is_safe_collection_name(req.args.query[CollectionKey])
    /\ resp.status = NOT_IMPLEMENTED
    /\ calls = <<>>

\* the body has a set1 or set2 whose filter references the var axis
VarFilterIn(body) ==
    /\ body.t = "obj"
    /\ \E k \in {"set1", "set2"} :
          /\ k \in DOMAIN body.v
          /\ body.v[k].t = "obj"
          /\ "filter" \in DOMAIN body.v[k].v
          /\ body.v[k].v["filter"].t = "obj"
          /\ "var" \in DOMAIN body.v[k].v["filter"].v

\* the client errors of the error taxonomy: the 4xx responses, and
\* NOT_IMPLEMENTED for what is disabled
ClientError(status) == status \in 400..499 \/ status = NOT_IMPLEMENTED

EngineInvoked == \E i \in 1..Len(calls) : calls[i] = "diffexp_topN"

\* C18: a diffexp_obs_post request whose set1 or set2 filter references the
\* var axis never reaches diffexp_topN and ends in a client error response,
\* whatever its other fields are.
C18_VarFilterRejected ==
    (req.op = "diffexp_obs_post" /\ VarFilterIn(req.args)) =>
        (~EngineInvoked /\ ClientError(resp.status))

\* the set1 or set2 member of the body, when present, is an object with an
\* object as its filter
WellFormedSet(body, k) ==
    k \in DOMAIN body.v =>
        /\ body.v[k].t = "obj"
        /\ "filter" \in DOMAIN body.v[k].v
        /\ body.v[k].v["filter"].t = "obj"

\* C19: with differential expression enabled and mode topN, a body that lacks
\* set1, set2 or count (its other members being well formed) is answered
\* BAD_REQUEST 'missing required parameter' and diffexp_topN is not invoked.
C19_MissingParameter ==
    (/\ req.op = "diffexp_obs_post" /\ cfg.diffexp__enable
     /\ req.args.t = "obj"
     /\ "mode" \in DOMAIN req.args.v /\ req.args.v["mode"] = JStr("topN")
     /\ "varFilter" \notin DOMAIN req.args.v
     /\ WellFormedSet(req.args, "set1") /\ WellFormedSet(req.args, "set2")
     /\ \E k \in {"set1", "set2", "count"} : k \notin DOMAIN req.args.v)
    => /\ ~EngineInvoked
       /\ resp.status = BAD_REQUEST
       /\ resp.body = << "missing required parameter" >>

ColumnOps == {"annotations_obs_get", "annotations_var_get", "layout_obs_get"}

\* the number of columns the request handled last asks for
ColumnsRequested ==
    IF Len(req.args.fields) > 0 THEN Len(req.args.fields)
    ELSE IF req.op = "annotations_obs_get" THEN Len(get_obs_keys)
    ELSE IF req.op = "annotations_var_get" THEN Len(get_var_keys)
    ELSE Len(get_embedding_names)

\* C20: in annotations_obs_get, annotations_var_get and layout_obs_get a
\* request for more columns than column_request_max (names given, or all
\* columns when none is given) is answered BAD_REQUEST with the ceiling check
\* as its only operation: no accept check, no read of the user store, no
\* matrix encoding.
C20_CeilingFirst ==
    (req.op \in ColumnOps /\ ColumnsRequested > cfg.column_request_max) =>
        /\ resp.status = BAD_REQUEST /\ resp.body = <<>>
        /\ calls = << "exceeds_limit" >>

\* all var columns requested with an accept header that would be refused:
\* answered 400, not 406
C20_Witness ==
    /\ req.op = "annotations_var_get"
    /\ req.args.fields = <<>> /\ req.args.accept = "text/html"
    /\ resp.status = BAD_REQUEST
    /\ calls = << "exceeds_limit" >>

-----------------------------------------------------------------------------
(* A rename request that fails part way (Spec)                             *)

\* the position in embNames of the name whose os.rename raised
FailedAt == RenameResult(Before, req.args).done + 1

\* the artifacts of name n are as the request found them
Untouched(n) ==
    \A k \in KindSet :
        /\ n \in DOMAIN After[k] <=> n \in DOMAIN Before[k]
        /\ n \in DOMAIN After[k] => After[k][n] = Before[k][n]

\* C25 as claimed: when a rename request fails on the k-th listed name, the
\* names before k are relocated to their substituted names, and the k-th
\* and all later names are as the request found them.
C25_NoRollbackAnyNames ==
    (IsRename /\ RenameGiven(req.args) /\ resp.at = "os.rename") =>
        \A i \in 1..Len(req.args.embNames) :
            IF i < FailedAt THEN Relocated(req.args.embNames[i])
            ELSE Untouched(req.args.embNames[i])

\* C25, amended: when a rename request whose listed names and substituted
\* names do not collide fails on the k-th listed name, that name having no
\* coordinate file, the names before k are relocated to their substituted
\* names, and the k-th and all later names are as the request found them.
C25_NoRollback ==
    (/\ IsRename /\ RenameGiven(req.args) /\ resp.at = "os.rename"
     /\ NoCollision(req.args.embNames)
     /\ req.args.embNames[FailedAt] \notin DOMAIN Before["emb"]) =>
        \A i \in 1..Len(req.args.embNames) :
            IF i < FailedAt THEN Relocated(req.args.embNames[i])
            ELSE Untouched(req.args.embNames[i])

\* a rename of two distinct names that moved the first to a new name and
\* failed on the second
C25_Witness ==
    /\ IsRename /\ RenameGiven(req.args) /\ resp.at = "os.rename"
    /\ Len(req.args.embNames) = 2
    /\ NoCollision(req.args.embNames)
    /\ FailedAt = 2
    /\ Target(req.args.embNames[1]) # req.args.embNames[1]
    /\ Exists3(After, Target(req.args.embNames[1]))
    /\ None3(After, req.args.embNames[1])
    /\ None3(After, req.args.embNames[2])

-----------------------------------------------------------------------------
(* Collection names and label payloads that are refused                    *)

\* the query arguments of the request
QueryOf == IF req.op = "annotations_obs_put" THEN req.args ELSE req.args.query

\* the request is one of the three that take a collection name, and the
\* name it supplies fails is_safe_collection_name
UnsafeNamed ==
    /\ req.op \in {"annotations_obs_put", "reembed_parameters_put", "genesets_put"}
    /\ Has(QueryOf, CollectionKey)
    /\ ~is_safe_collection_name(QueryOf[CollectionKey])

\* the feature the request needs is enabled
FeatureOn ==
    /\ req.op = "annotations_obs_put" => cfg.user_annotations
    /\ req.op = "genesets_put" => cfg.gene_sets_save

\* the operations that select a collection or write to the store
StoreOps == {"set_collection", "pickle.dump", "write_gene_sets", "write_reembed_parameters"}

\* C21 as claimed, for the requests in its favour (those whose feature is
\* enabled): annotations_obs_put, reembed_parameters_put and genesets_put
\* with a collection name that fails is_safe_collection_name answer
\* BAD_REQUEST, set_collection is not called, the name is not selected, and
\* labels, reembedding parameters and gene sets are not written.
C21_UnsafeCollection ==
    (UnsafeNamed /\ FeatureOn) =>
        /\ resp.status = BAD_REQUEST
        /\ \A i \in 1..Len(calls) : calls[i] \notin StoreOps
        /\ cfg.collection # QueryOf[CollectionKey]
        /\ obsFile = pre.obsFile /\ store = pre.store

\* the body does not decompress, or what it decompresses to is no matrix frame
Undecodable(data) ==
    \/ inflate(data).exc # ""
    \/ decode_matrix_fbs(inflate(data).val).exc # ""

\* C24: annotations_obs_put (label writing enabled) with a body that cannot
\* be decompressed or cannot be decoded as a matrix frame answers
\* BAD_REQUEST and leaves the stored obs-label table of the user as it was.
C24_UndecodablePayload ==
    (/\ req.op = "annotations_obs_put" /\ cfg.user_annotations
     /\ Undecodable(req.data)) =>
        /\ resp.status = BAD_REQUEST
        /\ obsFile = pre.obsFile

-----------------------------------------------------------------------------
(* save_metadata_put: the export of a user's labels as a CSV file          *)

\* data_adaptor.get_shape(): the numbers of rows and of columns
get_shape == << Len(<<"row0", "row1">>), Len(BaseVar) >>

\* data_adaptor._axis_filter_to_mask(Axis.OBS, rows, count): the rows
\* selected, or IndexError for a row the dataset does not have
axis_filter_to_mask(rows, count) ==
    IF \E i \in 1..Len(rows) : rows[i] >= count
    THEN [exc |-> "IndexError", val |-> <<>>]
    ELSE [exc |-> "", val |-> rows]

\* labels[labelNames]: the columns named, or KeyError
LabelsGetItem(labels, given, labelNames) ==
    IF ~given \/ \E i \in 1..Len(labelNames) :
                    \A j \in 1..Len(labels) : labels[j].name # labelNames[i]
    THEN [exc |-> "KeyError", val |-> <<>>]
    ELSE [exc |-> "", val |-> SelectColumns(labels, labelNames, 1)]

\* labels.to_csv(path): the bytes of the file written
to_csv(columns, mask) == << [op |-> "csv", columns |-> columns, index |-> mask] >>

\* save_metadata_put up to labels.to_csv: the bytes written to the export
\* file, or the exception raised before it is opened; json tells whether
\* the request has a JSON body, args is that body
save_metadata_csv(json, args, obs) ==
    LET filter == IF args # NoArgs THEN args.filter ELSE NoArgs
        obs_mask == axis_filter_to_mask(filter.obs, get_shape[1])
        labels == pickle_load(obs)
        named == LabelsGetItem(labels.val, Has(args, "labelNames"),
                               IF Has(args, "labelNames") THEN args.labelNames ELSE <<>>)
    IN  IF ~json THEN [exc |-> "AttributeError", at |-> "args.get", csv |-> <<>>]
        ELSE IF args # NoArgs /\ ~Has(args, "filter")
        THEN [exc |-> "KeyError", at |-> "args[filter]", csv |-> <<>>]
        ELSE IF args = NoArgs
        THEN [exc |-> "TypeError", at |-> "filter[obs]", csv |-> <<>>]
        ELSE IF ~Has(filter, "obs") \/ obs_mask.exc # ""
        THEN [exc |-> "FilterError", at |-> "raise FilterError", csv |-> <<>>]
        ELSE IF labels.exc # ""
        THEN [exc |-> labels.exc, at |-> "pickle.load", csv |-> <<>>]
        ELSE IF named.exc # ""
        THEN [exc |-> named.exc, at |-> "labels[labelNames]", csv |-> <<>>]
        ELSE [exc |-> "", at |-> "", csv |-> to_csv(named.val, obs_mask.val)]

\* send_file(path, as_attachment=True): the response that carries the bytes
\* of the file; opening a file that does not exist raises
send_file(file) ==
    IF file = NoFile THEN Uncaught("FileNotFoundError", "send_file")
    ELSE make_response(file, OK)

\* a hook that reports the file removed and leaves it in place
remove_file_keeps(file, oserror) == [file |-> file, exc |-> ""]

\* remove_file, the hook run after the request: os.remove of the export
\* file; what it raises (the file gone already, or oserror: the system
\* refuses the removal) is printed and goes no further
remove_file(file, oserror) ==
    IF file = NoFile THEN [file |-> file, exc |-> "FileNotFoundError"]
    ELSE IF oserror THEN [file |-> file, exc |-> "OSError"]
    ELSE [file |-> NoFile, exc |-> ""]

\* a save_metadata_put request as it arrives
StartExport(userID, json, args) ==
    [op |-> "save_metadata_put", user |-> userID, json |-> json, args |-> args,
     pc |-> "to_csv", csv |-> <<>>, resp |-> NoResp, attempts |-> 0, removal |-> ""]

\* save_metadata_put from the request to labels.to_csv and the registration
\* of remove_file
ExportWrite(id) ==
    LET p == procs[id]
        r == save_metadata_csv(p.json, p.args, obsFile[p.user])
    IN  /\ p.op = "save_metadata_put" /\ p.pc = "to_csv"
        /\ exports' = IF r.exc = "" THEN [exports EXCEPT ![p.user] = r.csv] ELSE exports
        /\ procs' = [procs EXCEPT ![id] =
                        IF r.exc # "" THEN Raise(p, r.exc, r.at)
                        ELSE [p EXCEPT !.pc = "send_file", !.csv = r.csv]]
        /\ UNCHANGED <<cfg, store, obsFile, req, pre, resp, fargs, fres, calls>>

\* save_metadata_put: return send_file(...)
ExportSend(id) ==
    LET p == procs[id] IN
    /\ p.op = "save_metadata_put" /\ p.pc = "send_file"
    /\ procs' = [procs EXCEPT ![id] =
                    [p EXCEPT !.pc = "remove_file", !.resp = send_file(exports[p.user])]]
    /\ UNCHANGED <<cfg, store, obsFile, req, pre, resp, fargs, fres, calls, exports>>

\* the hook remove_file, run once the handler has returned its response
ExportRemove(id, oserror) ==
    LET p == procs[id]
        r == remove_file(exports[p.user], oserror)
    IN  /\ p.op = "save_metadata_put" /\ p.pc = "remove_file"
        /\ exports' = [exports EXCEPT ![p.user] = r.file]
        /\ procs' = [procs EXCEPT ![id] =
                        [p EXCEPT !.pc = "done", !.attempts = p.attempts + 1,
                                  !.removal = IF r.exc = "" THEN "removed" ELSE r.exc]]
        /\ UNCHANGED <<cfg, store, obsFile, req, pre, resp, fargs, fres, calls>>

\* the rows an obs filter may select, and the columns a request may name
ExportRows == { <<0>>, <<0, 1>>, <<2>> }
ExportNames == { <<"louvain">>, <<"n_counts">>, <<"nope">> }

\* the JSON bodies of save_metadata_put
ExportArgs ==
    { NoArgs }
    \cup { [labelNames |-> n] : n \in ExportNames }
    \cup { [labelNames |-> n, filter |-> NoArgs] : n \in ExportNames }
    \cup { [filter |-> [obs |-> r]] : r \in ExportRows }
    \cup { [labelNames |-> n, filter |-> [obs |-> r]] : n \in ExportNames, r \in ExportRows }

\* the requests: one without a JSON body, and one for each body
ExportStart ==
    { StartExport("u1", FALSE, NoArgs) } \cup { StartExport("u1", TRUE, a) : a \in ExportArgs }

-----------------------------------------------------------------------------
(* SpecExport: one user's exports, handled one at a time                   *)

InitExport ==
    /\ cfg = DefaultCfg
    /\ store = [u \in Users |-> EmptyScope]
    /\ \E f \in {NoFile, pickle_dump(<<ColLouvain, ColCounts>>)} :
          obsFile = [u \in Users |-> IF u = "u1" THEN f ELSE NoFile]
    /\ req = NoReq
    /\ pre = [store |-> store, obsFile |-> obsFile, lastPut |-> <<>>]
    /\ resp = NoResp
    /\ procs = <<>>
    /\ fargs = <<>>
    /\ fres = <<>>
    /\ calls = <<>>
    /\ exports = [u \in Users |-> NoFile]

\* the next request arrives when the one before it has finished
ExportArrive(p) ==
    /\ IF procs = <<>> THEN TRUE ELSE procs[1].pc = "done"
    /\ procs' = << p >>
    /\ UNCHANGED <<cfg, store, obsFile, req, pre, resp, fargs, fres, calls, exports>>

NextExport ==
    \/ \E p \in ExportStart : ExportArrive(p)
    \/ procs # <<>> /\ ExportWrite(1)
    \/ procs # <<>> /\ ExportSend(1)
    \/ \E oserror \in BOOLEAN : procs # <<>> /\ ExportRemove(1, oserror)

\* a request that has begun runs to its end
SpecExport == InitExport /\ [][NextExport]_vars /\ WF_vars(NextExport)

\* the request wrote the export file
Wrote(p) == p.csv # <<>>

\* what holds of an export request at every moment
ExportCleanupSafe ==
    \A id \in DOMAIN procs :
        LET p == procs[id] IN
        /\ p.attempts <= 1
        /\ p.attempts = 1 => (Wrote(p) /\ p.resp # NoResp)
        /\ (p.pc = "done" /\ Wrote(p)) =>
              /\ p.attempts = 1
              /\ p.resp = make_response(p.csv, OK)
        /\ (p.pc = "done" /\ p.removal = "removed") => exports[p.user] = NoFile

\* C23: every save_metadata_put that writes the export file is followed,
\* after its response has been produced, by one attempt to remove the file;
\* the file is absent once the request has finished and the removal
\* succeeded; a removal that fails is swallowed, the response being the one
\* produced before it.
C23_ExportCleanup ==
    /\ []ExportCleanupSafe
    /\ (procs # <<>> /\ Wrote(procs[1]) /\ procs[1].attempts = 0)
          ~> (procs # <<>> /\ Wrote(procs[1]) /\ procs[1].attempts = 1)

\* an export answered 200 with its CSV whose file the system refused to
\* remove
C23_Witness ==
    /\ procs # <<>>
    /\ procs[1].pc = "done" /\ Wrote(procs[1])
    /\ procs[1].removal = "OSError"
    /\ procs[1].resp.status = OK
    /\ exports[procs[1].user] = procs[1].csv

-----------------------------------------------------------------------------
(* SpecExportRace: two overlapping exports of one user, each of write,     *)
(* send and remove one step                                                *)

InitExportRace ==
    /\ cfg = DefaultCfg
    /\ store = [u \in Users |-> EmptyScope]
    /\ obsFile = [u \in Users |->
                    IF u = "u1" THEN pickle_dump(<<ColLouvain, ColCounts>>) ELSE NoFile]
    /\ req = NoReq
    /\ pre = [store |-> store, obsFile |-> obsFile, lastPut |-> <<>>]
    /\ resp = NoResp
    /\ procs \in [1..2 -> ExportStart]
    /\ fargs = <<>>
    /\ fres = <<>>
    /\ calls = <<>>
    /\ exports = [u \in Users |-> NoFile]

NextExportRace ==
    \/ \E id \in 1..2 : ExportWrite(id)
    \/ \E id \in 1..2 : ExportSend(id)
    \/ \E id \in 1..2, oserror \in BOOLEAN : ExportRemove(id, oserror)

SpecExportRace == InitExportRace /\ [][NextExportRace]_vars

\* C26: when two save_metadata_put requests of one user overlap, each
\* request that wrote its CSV answers 200 with the CSV made from its own
\* label names and filter: none finds the file removed or overwritten by
\* the other before it is sent.
C26_OverlappingExports ==
    \A id \in DOMAIN procs :
        (Wrote(procs[id]) /\ procs[id].pc \in {"remove_file", "done"}) =>
            procs[id].resp = make_response(procs[id].csv, OK)

-----------------------------------------------------------------------------
(* The user directories side by side: embedding names as path strings      *)

\* the components of a path, each ".." taking back the component before it
RECURSIVE Normalize(_, _, _)
Normalize(comps, i, stack) ==
    IF i > Len(comps) THEN stack
    ELSE IF comps[i] = <<"..">> /\ stack # <<>>
         THEN Normalize(comps, i + 1, SubSeq(stack, 1, Len(stack) - 1))
         ELSE Normalize(comps, i + 1, Append(stack, comps[i]))

\* the file that f"{userID}/{kind}/{name}.p" names: the operating system
\* resolves the path from the working directory, which holds the user
\* directories; ok is FALSE for a path that leads to no artifact directory
PathOf(userID, kind, name) ==
    LET c == Normalize(<< <<userID>>, <<kind>> >> \o Split(name, "/"), 1, <<>>) IN
    IF /\ Len(c) = 3
       /\ Len(c[1]) = 1 /\ c[1][1] \in Users
       /\ Len(c[2]) = 1 /\ c[2][1] \in KindSet
    THEN [ok |-> TRUE, user |-> c[1][1], kind |-> c[2][1], name |-> c[3]]
    ELSE [ok |-> FALSE, user |-> userID, kind |-> kind, name |-> name]

\* os.path.exists(path)
path_exists(fs, path) == path.ok /\ os_path_exists(fs[path.user], path.kind, path.name)

\* os.remove(path), the file existing
path_remove(fs, path) ==
    [fs EXCEPT ![path.user] = os_remove(fs[path.user], path.kind, path.name)]

\* the file system with the bytes written at path
path_write(fs, path, bytes) ==
    [fs EXCEPT ![path.user] =
        [fs[path.user] EXCEPT ![path.kind] =
            [n \in (DOMAIN fs[path.user][path.kind]) \cup {path.name} |->
                IF n = path.name THEN bytes ELSE fs[path.user][path.kind][n]]]]

\* os.rename(src, dst): it raises when the source or the directory of the
\* destination does not exist; the destination is replaced
path_rename(fs, src, dst) ==
    IF ~path_exists(fs, src) \/ ~dst.ok
    THEN [fs |-> fs, exc |-> "FileNotFoundError"]
    ELSE IF src = dst THEN [fs |-> fs, exc |-> ""]
    ELSE [fs |-> path_write(path_remove(fs, src), dst,
                            fs[src.user][src.kind][src.name]),
          exc |-> ""]

\* delete_obsm_put: if os.path.exists(p): os.remove(p)
DeleteAt(fs, userID, kind, name) ==
    LET path == PathOf(userID, kind, name) IN
    IF path_exists(fs, path) THEN path_remove(fs, path) ELSE fs

\* delete_obsm_put: the loop over embNames and the three directories
RECURSIVE DeleteLoopAt(_, _, _, _, _)
DeleteLoopAt(fs, userID, names, i, k) ==
    IF i > Len(names) THEN fs
    ELSE IF k > Len(Kinds) THEN DeleteLoopAt(fs, userID, names, i + 1, 1)
    ELSE DeleteLoopAt(DeleteAt(fs, userID, Kinds[k], names[i]), userID, names, i, k + 1)

\* rename_obsm_put: the loop over embNames and the three directories, ended
\* by the first os.rename that raises
RECURSIVE RenameLoopAt(_, _, _, _, _, _, _)
RenameLoopAt(fs, userID, names, oldName, newName, i, k) ==
    IF i > Len(names) THEN [fs |-> fs, exc |-> ""]
    ELSE IF k > Len(Kinds) THEN RenameLoopAt(fs, userID, names, oldName, newName, i + 1, 1)
    ELSE LET r == path_rename(fs, PathOf(userID, Kinds[k], names[i]),
                              PathOf(userID, Kinds[k],
                                     Replace(names[i], oldName, newName)))
         IN  IF r.exc # "" THEN r
             ELSE RenameLoopAt(r.fs, userID, names, oldName, newName, i, k + 1)

\* the handler delete_obsm_put on the user directories, from request to
\* response
delete_obsm_put_at(userID, args) ==
    /\ req' = [op |-> "delete_obsm_put", user |-> userID, args |-> args]
    /\ pre' = Snapshot
    /\ store' = IF Has(args, "embNames")
                THEN DeleteLoopAt(store, userID, args.embNames, 1, 1) ELSE store
    /\ resp' = make_response([fail |-> FALSE], OK)
    /\ UNCHANGED <<cfg, obsFile, procs, fargs, fres, calls, exports>>

\* the handler rename_obsm_put on the user directories, from request to
\* response
rename_obsm_put_at(userID, args) ==
    LET r == IF RenameGiven(args)
             THEN RenameLoopAt(store, userID, args.embNames, args.oldName,
                               args.newName, 1, 1)
             ELSE [fs |-> store, exc |-> ""]
        s == schema_get_helper(r.fs[userID], obsFile[userID])
    IN  /\ req' = [op |-> "rename_obsm_put", user |-> userID, args |-> args]
        /\ pre' = Snapshot
        /\ store' = r.fs
        /\ resp' = IF r.exc # "" THEN Uncaught(r.exc, "os.rename")
                   ELSE IF s.exc # "" THEN Uncaught(s.exc, "pickle.load")
                   ELSE make_response([schema |-> s.schema], OK)
        /\ UNCHANGED <<cfg, obsFile, procs, fargs, fres, calls, exports>>

-----------------------------------------------------------------------------
(* SpecUsers: the requests of two users, handled one at a time in any order *)

\* an embedding name that is a path from an artifact directory of one user
\* to the file of embedding n in directory kind of user u
Traversal(u, kind, n) == <<"..", "/", "..", "/", u, "/", kind, "/">> \o n

\* the names a request may list: an embedding, and paths to the coordinate
\* file of that embedding under every user
UserNames == { <<"a">> } \cup { Traversal(u, "emb", <<"a">>) : u \in Users }

UserDeleteArgs == OptField("embNames", { <<n>> : n \in UserNames })

UserRenameArgs ==
    { [embNames |-> <<n>>, oldName |-> <<"a">>, newName |-> <<"b">>] : n \in UserNames }

UserPutBodies == { deflate(encode_matrix_fbs(<<ColCounts>>)) }

UserExportArgs == { [labelNames |-> <<"louvain">>, filter |-> [obs |-> <<0>>]] }

InitUsers ==
    /\ cfg = DefaultCfg
    /\ store = [u \in Users |-> ScopeOf({<<"a">>})]
    /\ obsFile = [u \in Users |-> pickle_dump(<<ColLouvain>>)]
    /\ req = NoReq
    /\ pre = [store |-> store, obsFile |-> obsFile, lastPut |-> <<>>]
    /\ resp = NoResp
    /\ procs = <<>>
    /\ fargs = <<>>
    /\ fres = <<>>
    /\ calls = <<>>
    /\ exports = [u \in Users |-> NoFile]

NextUsers ==
    \/ \E u \in Users, args \in UserDeleteArgs : delete_obsm_put_at(u, args)
    \/ \E u \in Users, args \in UserRenameArgs : rename_obsm_put_at(u, args)
    \/ \E u \in Users, data \in UserPutBodies : annotations_obs_put(u, NoArgs, data)
    \/ \E u \in Users, a \in UserExportArgs : ExportArrive(StartExport(u, TRUE, a))
    \/ procs # <<>> /\ ExportWrite(1)
    \/ procs # <<>> /\ ExportSend(1)
    \/ \E oserror \in BOOLEAN : procs # <<>> /\ ExportRemove(1, oserror)

SpecUsers == InitUsers /\ [][NextUsers]_vars

\* C22: a label write, embedding delete or embedding rename executed for
\* one user leaves the labels and the coordinate, neighbor-graph and
\* parameter artifacts of every other user as the request found them; an
\* export changes none of them.
C22_UserIsolation ==
    \A b \in Users :
        b # req.user => (store[b] = pre.store[b] /\ obsFile[b] = pre.obsFile[b])

====
